---- MODULE Spec2Model ----
(***************************************************************************)
(* SoundBridge: the UDP data channel (data_channel.py), the AudioConfig    *)
(* JSON codec (utils.py) and the UDP control channel (control_channel.py). *)
(*                                                                         *)
(* bytes objects are sequences of byte values 0..255; the text of control  *)
(* datagrams is a sequence of one-character strings.                       *)
(***************************************************************************)
EXTENDS Integers, Sequences, FiniteSets, TLC

VARIABLES
    \* ---- DataChannel (data_channel.py) ----
    is_server,          \* self.is_server
    dst_address,        \* self.dst_address
    tx_buffer,          \* self.tx_buffer : deque, [items, maxlen]
    rx_buffer,          \* self.rx_buffer : deque, [items, maxlen]
    tx_chunk_size,      \* self.tx_chunk_size
    rx_chunk_size,      \* self.rx_chunk_size
    tx_chunks_per_pkt,  \* self.tx_chunks_per_pkt
    rx_chunks_per_pkt,  \* self.rx_chunks_per_pkt
    run_flag,           \* self.run_flag (both loop threads run while it is set)
    sender_config,      \* the sender_config last handed to _setup
    receiver_config,    \* the receiver_config last handed to _setup
    sent,               \* the socket.sendto calls made by the last step
    last_from,          \* the source of the datagram recvfrom returned last
    tx_seq,             \* tag of the next chunk the capture worker produces
    sender_pc,          \* _sender: the statement the sender thread is at
    sender_popped,      \* _sender: the chunks popped for the packet being made
    receiver_pc,        \* _receiver: the statement the receiver thread is at
    receiver_stream,    \* _receiver: what payload_stream has left to read
    call_pc,            \* the statement of stop() or restart() under way
    call_args,          \* the configs handed to the restart() under way
    wire,               \* payloads sent and not yet received by the peer
    \* ---- AudioConfig codec (utils.py) ----
    codec_pc,           \* "config", "data" or "decoded"
    codec_config,       \* the AudioConfig whose to_bytes is called
    codec_kind,         \* how the bytes handed to from_bytes were made
    codec_data,         \* the bytes handed to from_bytes
    codec_result,       \* what from_bytes returned
    \* ---- ControlChannelServer and its app_server (control_channel.py) ----
    client_address,     \* self.client_address
    speaker_config,     \* self.app_server.speaker.config
    microphone_config,  \* self.app_server.microphone.config
    microphone_alive,   \* self.app_server.microphone.is_alive()
    reload_pc,          \* position of the reload handler
    server_socket,      \* datagrams queued at server_socket: [payload, address]
    \* ---- SoundBridgeServer (server.py) ----
    speaker_alive,      \* self.speaker.is_alive()
    speaker_started,    \* start() was called on the worker self.speaker
    microphone_started, \* start() was called on the worker self.microphone
    microphone_orphan,  \* a microphone worker that left the slot is alive
    handler_alive,      \* the thread of _request_handler is running
    audio_interface,    \* self.audio_interface: the devices it sees
    default_devices,    \* the system's default output and input device
    current_devices,    \* device_monitor: current_output_device, current_input_device
    monitor_alive,      \* the device_monitor process is running
    need_reload,        \* self.need_reload is set
    is_speaker_on,      \* reload_pyaudio: is_speaker_on
    is_microphone_on,   \* reload_pyaudio: is_microphone_on
    cycle,              \* what was done since the reload cycle in progress began
    init_pc,            \* position of SoundBridgeServer.__init__
    handler_recv,       \* _request_handler: received and not matched yet
    control_sent,       \* the sendto calls made by the last control step
    \* ---- ControlChannelClient and the client's control thread ----
    client_socket,      \* datagrams queued at client_socket: payloads
    thread_pc,          \* the call the control thread is in
    get_phase,          \* _get_audio_config: "send" or "receive"
    recv_data,          \* what _receive_data returned last
    thread_speaker_config,     \* main.thread: speaker_config
    thread_microphone_config,  \* main.thread: microphone_config
    sound_bridge_client,       \* main.thread: the SoundBridgeClient of the with block
    \* ---- Sender and Receiver of an endpoint (audio_handlers.py) ----
    sender_worker,      \* the Sender in the endpoint's slot
    receiver_worker,    \* the Receiver in the endpoint's slot
    app_pc,             \* the call of the endpoint that is under way
    last_call           \* the call of the endpoint that returned last

loopVars == <<sender_pc, sender_popped, receiver_pc, receiver_stream,
              call_pc, call_args, wire>>

dataVars == <<is_server, dst_address, tx_buffer, rx_buffer, tx_chunk_size,
              rx_chunk_size, tx_chunks_per_pkt, rx_chunks_per_pkt, run_flag,
              sender_config, receiver_config, sent, last_from, tx_seq,
              loopVars>>

codecVars == <<codec_pc, codec_config, codec_kind, codec_data, codec_result>>

workerVars == <<speaker_alive, speaker_started, microphone_started,
                microphone_orphan, handler_alive>>

deviceVars == <<audio_interface, default_devices, current_devices,
                monitor_alive, need_reload>>

reloadVars == <<is_speaker_on, is_microphone_on, cycle>>

serverVars == <<client_address, speaker_config, microphone_config,
                microphone_alive, reload_pc, server_socket,
                workerVars, deviceVars, reloadVars, init_pc, handler_recv>>

clientVars == <<client_socket, thread_pc, get_phase, recv_data,
                thread_speaker_config, thread_microphone_config,
                sound_bridge_client>>

controlVars == <<serverVars, clientVars, control_sent>>

audioVars == <<sender_worker, receiver_worker, app_pc, last_call>>

vars == <<dataVars, codecVars, controlVars, audioVars>>

-----------------------------------------------------------------------------
(* config.py *)

MAX_PACKET_SIZE == 1024
AUDIO_DTYPE == 8          \* pyaudio.paInt16
FRAMES_PER_CHUNK == 32
BUFFER_TIME_MS == 200     \* BUFFER_TIME = 0.2 s, in milliseconds

-----------------------------------------------------------------------------
(* Bounds of the model *)

NumTags == 3              \* distinct fill bytes of the chunks of one stream

-----------------------------------------------------------------------------
(* utils.py : AudioConfig *)

\* pyaudio.get_sample_size: bytes per sample of a PortAudio sample format
get_sample_size(audio_dtype) ==
    CASE audio_dtype = 1  -> 4      \* paFloat32
      [] audio_dtype = 2  -> 4      \* paInt32
      [] audio_dtype = 4  -> 3      \* paInt24
      [] audio_dtype = 8  -> 2      \* paInt16
      [] audio_dtype = 16 -> 1      \* paInt8
      [] audio_dtype = 32 -> 1      \* paUInt8

AudioConfig(sample_rate, channels, audio_dtype, frames_per_chunk) ==
    [sample_rate |-> sample_rate, channels |-> channels,
     audio_dtype |-> audio_dtype, frames_per_chunk |-> frames_per_chunk]

\* Chunk size in bytes.
chunk_size(c) == c.frames_per_chunk * c.channels * get_sample_size(c.audio_dtype)

\* Chunk duration in seconds, as the fraction frames_per_chunk / sample_rate.
chunk_duration(c) == [num |-> c.frames_per_chunk, den |-> c.sample_rate]

\* BUFFER_TIME / d rounded up instead of truncated
BufferTimeOver_RoundedUp(d) ==
    (BUFFER_TIME_MS * d.den + 1000 * d.num - 1) \div (1000 * d.num)

\* int(BUFFER_TIME / d) for a duration d = num / den seconds.
BufferTimeOver(d) == (BUFFER_TIME_MS * d.den) \div (1000 * d.num)

-----------------------------------------------------------------------------
(* The configurations of the audio workers.  The workers use FRAMES_PER_CHUNK *)
(* and AUDIO_DTYPE; sample rate and channel count come from the device.       *)
(* The sample rates are low so that the queues hold 3 and 10 chunks.          *)

DeviceConfigs ==
    { AudioConfig(500, 5, AUDIO_DTYPE, FRAMES_PER_CHUNK),
      AudioConfig(1600, 2, AUDIO_DTYPE, FRAMES_PER_CHUNK) }

-----------------------------------------------------------------------------
(* Text: a bytes object that holds text is the sequence of its characters. *)

Digits == <<"0", "1", "2", "3", "4", "5", "6", "7", "8", "9">>
IsDigit(ch) == \E d \in 1..10 : Digits[d] = ch
DigitValue(ch) == (CHOOSE d \in 1..10 : Digits[d] = ch) - 1

\* A byte that is no character of any UTF-8 text (such as 0xFF).
NON_UTF8 == "0xFF"

\* s[i:i+1] : the character at position i, or '' past the end
At(s, i) == IF i >= 1 /\ i <= Len(s) THEN <<s[i]>> ELSE <<>>

\* s.startswith(word, i)
StartsWith(s, i, word) ==
    /\ i + Len(word) - 1 <= Len(s)
    /\ \A k \in 1..Len(word) : s[i + k - 1] = word[k]

\* str(n) for an int n
RECURSIVE str_nat(_)
str_nat(n) ==
    IF n < 10 THEN <<Digits[n + 1]>>
    ELSE str_nat(n \div 10) \o <<Digits[(n % 10) + 1]>>

str(n) == IF n < 0 THEN <<"-">> \o str_nat(0 - n) ELSE str_nat(n)

\* int(digits) for a non-empty sequence of digits
RECURSIVE int_of(_)
int_of(digits) ==
    IF Len(digits) = 1 THEN DigitValue(digits[1])
    ELSE 10 * int_of(SubSeq(digits, 1, Len(digits) - 1))
         + DigitValue(digits[Len(digits)])

-----------------------------------------------------------------------------
(* utils.py : the AudioConfig codec (json.dumps / json.loads)                *)

\* The names of the dataclass fields, in the order of their declaration.
K_sample_rate == <<"s", "a", "m", "p", "l", "e", "_", "r", "a", "t", "e">>
K_channels == <<"c", "h", "a", "n", "n", "e", "l", "s">>
K_audio_dtype == <<"a", "u", "d", "i", "o", "_", "d", "t", "y", "p", "e">>
K_frames_per_chunk ==
    <<"f", "r", "a", "m", "e", "s", "_", "p", "e", "r", "_", "c", "h", "u", "n", "k">>

FieldNames == {K_sample_rate, K_channels, K_audio_dtype, K_frames_per_chunk}

\* Python objects, as json.loads builds them.  A bool is an int (True == 1).
PyInt(n) == [t |-> "int", v |-> n]
PyBool(b) == [t |-> "bool", v |-> b]
PyFloat == [t |-> "float", v |-> 0]
PyNone == [t |-> "NoneType", v |-> 0]
PyStr(chars) == [t |-> "str", v |-> chars]
PyList(elements) == [t |-> "list", v |-> elements]
PyDict(items) == [t |-> "dict", v |-> items]

\* isinstance(x, int)
isinstance_int(x) == x.t \in {"int", "bool"}

\* the AudioConfig fields with the old names, audio_format and num_frames
to_dict_OldNames(c) ==
    << <<K_sample_rate, c.sample_rate>>, <<K_channels, c.channels>>,
       << <<"a", "u", "d", "i", "o", "_", "f", "o", "r", "m", "a", "t">>,
          c.audio_dtype >>,
       << <<"n", "u", "m", "_", "f", "r", "a", "m", "e", "s">>,
          c.frames_per_chunk >> >>

\* _to_dict: asdict(self), the items in the order of the fields
to_dict(c) ==
    << <<K_sample_rate, c.sample_rate>>, <<K_channels, c.channels>>,
       <<K_audio_dtype, c.audio_dtype>>,
       <<K_frames_per_chunk, c.frames_per_chunk>> >>

\* json.dumps of a dict of str keys and int values, default separators
RECURSIVE dumps_items(_)
dumps_items(items) ==
    IF items = <<>> THEN <<>>
    ELSE LET item == Head(items)
             text == <<"\"">> \o item[1] \o <<"\"", ":", " ">> \o str(item[2])
         IN  IF Len(items) = 1 THEN text
             ELSE text \o <<",", " ">> \o dumps_items(Tail(items))

json_dumps(items) == <<"{">> \o dumps_items(items) \o <<"}">>

\* to_bytes: json.dumps(self._to_dict()).encode()
to_bytes(c) == json_dumps(to_dict(c))

\* json.loads --------------------------------------------------------------
\* A scan result: [ok, v, i], i the position after the value.
ScanFail == [ok |-> FALSE, v |-> PyNone, i |-> 0]
Scanned(v, i) == [ok |-> TRUE, v |-> v, i |-> i]

WHITESPACE == {" ", "\t", "\n", "\r"}

\* WHITESPACE.match(s, i).end()
RECURSIVE skip_ws(_, _)
skip_ws(s, i) ==
    IF i <= Len(s) /\ s[i] \in WHITESPACE THEN skip_ws(s, i + 1) ELSE i

\* the position after the digits that start at i
RECURSIVE skip_digits(_, _)
skip_digits(s, i) ==
    IF i <= Len(s) /\ IsDigit(s[i]) THEN skip_digits(s, i + 1) ELSE i

\* NUMBER_RE: (-?(?:0|[1-9]\d*))(\.\d+)?([eE][-+]?\d+)? ; an int when
\* neither fraction nor exponent matched, otherwise a float
scan_number(s, i) ==
    LET j == IF At(s, i) = <<"-">> THEN i + 1 ELSE i
        int_end == IF At(s, j) = <<"0">> THEN j + 1 ELSE skip_digits(s, j)
        has_frac == At(s, int_end) = <<".">> /\ skip_digits(s, int_end + 1) > int_end + 1
        frac_end == IF has_frac THEN skip_digits(s, int_end + 1) ELSE int_end
        exp_at == IF At(s, frac_end + 1) \in {<<"+">>, <<"-">>}
                  THEN frac_end + 2 ELSE frac_end + 1
        has_exp == At(s, frac_end) \in {<<"e">>, <<"E">>}
                   /\ skip_digits(s, exp_at) > exp_at
        exp_end == IF has_exp THEN skip_digits(s, exp_at) ELSE frac_end
        n == int_of(SubSeq(s, j, int_end - 1))
    IN  IF int_end = j THEN ScanFail
        ELSE IF has_frac \/ has_exp THEN Scanned(PyFloat, exp_end)
        ELSE Scanned(PyInt(IF j > i THEN 0 - n ELSE n), int_end)

\* the position of the closing quote of the string whose text starts at i,
\* or 0 when the string is not terminated
RECURSIVE closing_quote(_, _)
closing_quote(s, i) ==
    IF i > Len(s) THEN 0
    ELSE IF s[i] = "\"" THEN i
    ELSE closing_quote(s, i + 1)

\* scanstring: the string whose opening quote is at i - 1
scan_string(s, i) ==
    LET q == closing_quote(s, i) IN
    IF q = 0 THEN ScanFail ELSE Scanned(PyStr(SubSeq(s, i, q - 1)), q + 1)

\* dict[key] = value
dict_set(items, key, value) ==
    [k \in (DOMAIN items) \cup {key} |-> IF k = key THEN value ELSE items[k]]

EmptyDict == [k \in {} |-> PyNone]

INFINITY == <<"I", "n", "f", "i", "n", "i", "t", "y">>

RECURSIVE scan_once(_, _)
RECURSIVE scan_members(_, _, _)
RECURSIVE scan_elements(_, _, _)

\* JSONObject, from the quote that opens a key at i
scan_members(s, i, items) ==
    IF At(s, i) # <<"\"">> THEN ScanFail
    ELSE LET key == scan_string(s, i + 1) IN
         IF ~key.ok THEN ScanFail
         ELSE LET colon == skip_ws(s, key.i) IN
              IF At(s, colon) # <<":">> THEN ScanFail
              ELSE LET value == scan_once(s, skip_ws(s, colon + 1)) IN
                   IF ~value.ok THEN ScanFail
                   ELSE LET next == skip_ws(s, value.i)
                            now == dict_set(items, key.v.v, value.v)
                        IN  IF At(s, next) = <<"}">>
                            THEN Scanned(PyDict(now), next + 1)
                            ELSE IF At(s, next) = <<",">>
                            THEN scan_members(s, skip_ws(s, next + 1), now)
                            ELSE ScanFail

\* JSONArray, from the first character of an element at i
scan_elements(s, i, elements) ==
    LET value == scan_once(s, i) IN
    IF ~value.ok THEN ScanFail
    ELSE LET next == skip_ws(s, value.i)
             now == Append(elements, value.v)
         IN  IF At(s, next) = <<"]">> THEN Scanned(PyList(now), next + 1)
             ELSE IF At(s, next) = <<",">>
             THEN scan_elements(s, skip_ws(s, next + 1), now)
             ELSE ScanFail

\* scan_once: the value that starts at i
scan_once(s, i) ==
    LET ch == At(s, i) IN
    IF ch = <<>> THEN ScanFail
    ELSE IF ch = <<"\"">> THEN scan_string(s, i + 1)
    ELSE IF ch = <<"{">> THEN
        LET first == skip_ws(s, i + 1) IN
        IF At(s, first) = <<"}">> THEN Scanned(PyDict(EmptyDict), first + 1)
        ELSE scan_members(s, first, EmptyDict)
    ELSE IF ch = <<"[">> THEN
        LET first == skip_ws(s, i + 1) IN
        IF At(s, first) = <<"]">> THEN Scanned(PyList(<<>>), first + 1)
        ELSE scan_elements(s, first, <<>>)
    ELSE IF StartsWith(s, i, <<"n", "u", "l", "l">>) THEN Scanned(PyNone, i + 4)
    ELSE IF StartsWith(s, i, <<"t", "r", "u", "e">>) THEN Scanned(PyBool(1), i + 4)
    ELSE IF StartsWith(s, i, <<"f", "a", "l", "s", "e">>) THEN Scanned(PyBool(0), i + 5)
    ELSE IF StartsWith(s, i, <<"N", "a", "N">>) THEN Scanned(PyFloat, i + 3)
    ELSE IF StartsWith(s, i, INFINITY) THEN Scanned(PyFloat, i + 8)
    ELSE IF StartsWith(s, i, <<"-">> \o INFINITY) THEN Scanned(PyFloat, i + 9)
    ELSE IF ch = <<"-">> \/ IsDigit(ch[1]) THEN scan_number(s, i)
    ELSE ScanFail

\* json.loads(data): [ok, v]; not ok stands for a raised ValueError
\* (JSONDecodeError, UnicodeDecodeError)
json_loads(data) ==
    IF \E i \in 1..Len(data) : data[i] = NON_UTF8 THEN ScanFail
    ELSE LET r == scan_once(data, skip_ws(data, 1)) IN
         IF r.ok /\ skip_ws(data, r.i) = Len(data) + 1 THEN r ELSE ScanFail

\* from_bytes' None
None == [none |-> TRUE]

\* _from_dict: AudioConfig(**data); a TypeError (a missing or an unexpected
\* keyword argument) is None
from_dict(obj) ==
    IF DOMAIN obj = FieldNames
    THEN AudioConfig(obj[K_sample_rate].v, obj[K_channels].v,
                     obj[K_audio_dtype].v, obj[K_frames_per_chunk].v)
    ELSE None

\* from_bytes: JSON bytes to AudioConfig, or None on failure
from_bytes(data) ==
    LET r == json_loads(data) IN
    IF ~r.ok THEN None
    ELSE IF ~(r.v.t = "dict" /\ \A k \in DOMAIN r.v.v : isinstance_int(r.v.v[k]))
    THEN None
    ELSE from_dict(r.v.v)

-----------------------------------------------------------------------------
(* bytes *)

\* b * n : n bytes of value b
Fill(b, n) == [i \in 1..n |-> b]

\* b''.join(chunks)
RECURSIVE join(_)
join(chunks) ==
    IF chunks = <<>> THEN <<>> ELSE Head(chunks) \o join(Tail(chunks))

-----------------------------------------------------------------------------
(* collections.deque *)

deque(maxlen) == [items |-> <<>>, maxlen |-> maxlen]

\* an append that discards the new element when the deque is full
append_DropNewest(q, x) ==
    IF Len(q.items) >= q.maxlen THEN q
    ELSE [q EXCEPT !.items = Append(@, x)]

\* deque.append: a bounded deque that is full discards from the other end
append(q, x) ==
    IF q.maxlen = 0 THEN q
    ELSE IF Len(q.items) = q.maxlen
         THEN [q EXCEPT !.items = Append(Tail(@), x)]
         ELSE [q EXCEPT !.items = Append(@, x)]

\* deque.popleft on a non-empty deque: <<the element, the deque after>>
popleft(q) == <<Head(q.items), [q EXCEPT !.items = Tail(@)]>>

-----------------------------------------------------------------------------
(* data_channel.py : DataChannel *)

NO_ADDRESS == "none"           \* the placeholder ('', 0)
SERVER_ADDRESS == "server"     \* (server_host, server_port)
Peers == {"A", "B"}

\* socket.sendto(payload, address), as recorded in sent
sendto(payload, address) == [payload |-> payload, address |-> address]

\* _setup with tx_chunks_per_pkt computed from the receiver's chunk size
setup_RxChunkSize(s_config, r_config) ==
    [tx_buffer |-> deque(BufferTimeOver(chunk_duration(s_config))),
     rx_buffer |-> deque(BufferTimeOver(chunk_duration(r_config))),
     tx_chunk_size |-> chunk_size(s_config),
     rx_chunk_size |-> chunk_size(r_config),
     tx_chunks_per_pkt |-> MAX_PACKET_SIZE \div chunk_size(r_config),
     rx_chunks_per_pkt |-> MAX_PACKET_SIZE \div chunk_size(r_config)]

\* _setup: the buffers and parameters for the given configurations
setup(s_config, r_config) ==
    [tx_buffer |-> deque(BufferTimeOver(chunk_duration(s_config))),
     rx_buffer |-> deque(BufferTimeOver(chunk_duration(r_config))),
     tx_chunk_size |-> chunk_size(s_config),
     rx_chunk_size |-> chunk_size(r_config),
     tx_chunks_per_pkt |-> MAX_PACKET_SIZE \div chunk_size(s_config),
     rx_chunks_per_pkt |-> MAX_PACKET_SIZE \div chunk_size(r_config)]

\* The assignments of _setup, to the state before (Init) or after a step.
SetupAssigns(v, txb, rxb, txs, rxs, txk, rxk) ==
    /\ txb = v.tx_buffer
    /\ rxb = v.rx_buffer
    /\ txs = v.tx_chunk_size
    /\ rxs = v.rx_chunk_size
    /\ txk = v.tx_chunks_per_pkt
    /\ rxk = v.rx_chunks_per_pkt

\* No AudioConfig has been serialized or parsed.
CodecIdle ==
    /\ codec_pc = "config"
    /\ codec_config = None
    /\ codec_kind = "none"
    /\ codec_data = <<>>
    /\ codec_result = None

\* No control server has been constructed.
ServerIdle ==
    /\ client_address = NO_ADDRESS
    /\ speaker_config = None
    /\ microphone_config = None
    /\ microphone_alive = FALSE
    /\ reload_pc = "wait"
    /\ server_socket = <<>>
    /\ speaker_alive = FALSE
    /\ speaker_started = FALSE
    /\ microphone_started = FALSE
    /\ microphone_orphan = FALSE
    /\ handler_alive = FALSE
    /\ audio_interface = None
    /\ default_devices = None
    /\ current_devices = None
    /\ monitor_alive = FALSE
    /\ need_reload = FALSE
    /\ is_speaker_on = FALSE
    /\ is_microphone_on = FALSE
    /\ cycle = <<>>
    /\ init_pc = "none"
    /\ handler_recv = None

\* The client's control thread has not been started.
ClientIdle ==
    /\ client_socket = <<>>
    /\ thread_pc = "none"
    /\ get_phase = "send"
    /\ recv_data = <<>>
    /\ thread_speaker_config = None
    /\ thread_microphone_config = None
    /\ sound_bridge_client = None

\* No endpoint with these workers has been made.
AudioIdle ==
    /\ sender_worker = None
    /\ receiver_worker = None
    /\ app_pc = "none"
    /\ last_call = "none"

\* No control channel has been constructed.
ControlIdle == ServerIdle /\ ClientIdle /\ control_sent = <<>>

\* _start has started both loop threads, and no stop() or restart() is
\* under way.
LoopIdle ==
    /\ sender_pc = "while"
    /\ sender_popped = <<>>
    /\ receiver_pc = "while"
    /\ receiver_stream = <<>>
    /\ call_pc = "idle"
    /\ call_args = None
    /\ wire = <<>>

\* __init__: the socket and dst_address, _setup, _start
DataChannelInit ==
    /\ is_server \in BOOLEAN
    /\ dst_address = IF is_server THEN NO_ADDRESS ELSE SERVER_ADDRESS
    /\ sender_config \in DeviceConfigs
    /\ receiver_config \in DeviceConfigs
    /\ SetupAssigns(setup(sender_config, receiver_config),
                    tx_buffer, rx_buffer, tx_chunk_size, rx_chunk_size,
                    tx_chunks_per_pkt, rx_chunks_per_pkt)
    /\ run_flag = TRUE
    /\ sent = <<>>
    /\ last_from = NO_ADDRESS
    /\ tx_seq = 0
    /\ LoopIdle

\* A server-side data channel on which nothing has happened yet.
DataChannelIdle ==
    /\ DataChannelInit
    /\ is_server
    /\ sender_config = AudioConfig(1600, 2, AUDIO_DTYPE, FRAMES_PER_CHUNK)
    /\ receiver_config = sender_config

Init == DataChannelInit /\ CodecIdle /\ ControlIdle /\ AudioIdle

\* restart: stop(), _setup(...), _start()
restart(s_config, r_config) ==
    /\ SetupAssigns(setup(s_config, r_config),
                    tx_buffer', rx_buffer', tx_chunk_size', rx_chunk_size',
                    tx_chunks_per_pkt', rx_chunks_per_pkt')
    /\ sender_config' = s_config
    /\ receiver_config' = r_config
    /\ run_flag' = TRUE
    /\ sent' = <<>>
    /\ UNCHANGED <<is_server, dst_address, last_from, tx_seq>>
    /\ UNCHANGED <<loopVars, codecVars, controlVars, audioVars>>

\* stop: lower the run flag and join both loops
stop ==
    /\ run_flag' = FALSE
    /\ sent' = <<>>
    /\ UNCHANGED <<is_server, dst_address, tx_buffer, rx_buffer, tx_chunk_size,
                   rx_chunk_size, tx_chunks_per_pkt, rx_chunks_per_pkt,
                   sender_config, receiver_config, last_from, tx_seq>>
    /\ UNCHANGED <<loopVars, codecVars, controlVars, audioVars>>

\* put_chunk
put_chunk(chunk) ==
    /\ tx_buffer' = append(tx_buffer, chunk)
    /\ sent' = <<>>
    /\ UNCHANGED <<is_server, dst_address, rx_buffer, tx_chunk_size,
                   rx_chunk_size, tx_chunks_per_pkt, rx_chunks_per_pkt,
                   run_flag, sender_config, receiver_config, last_from>>
    /\ UNCHANGED <<loopVars, codecVars, controlVars, audioVars>>

\* The chunk the capture worker reads next: frames_per_chunk frames, that is
\* chunk_size bytes, here all of the value tx_seq.
CapturedChunk == Fill(tx_seq, chunk_size(sender_config))

\* The capture worker reads one chunk and enqueues it.
CaptureWorker ==
    /\ put_chunk(CapturedChunk)
    /\ tx_seq' = (tx_seq + 1) % NumTags

\* get_chunk, called by the playback worker
get_chunk ==
    /\ IF rx_buffer.items = <<>>
       THEN UNCHANGED rx_buffer                  \* IndexError: return None
       ELSE rx_buffer' = popleft(rx_buffer)[2]
    /\ sent' = <<>>
    /\ UNCHANGED <<is_server, dst_address, tx_buffer, tx_chunk_size,
                   rx_chunk_size, tx_chunks_per_pkt, rx_chunks_per_pkt,
                   run_flag, sender_config, receiver_config, last_from, tx_seq>>
    /\ UNCHANGED <<loopVars, codecVars, controlVars, audioVars>>

\* pop() for _ in range(n): the chunks are taken from the tail of the deque
RECURSIVE pop_n(_, _)
pop_n(q, n) ==
    IF n = 0 THEN <<(<<>>), q>>
    ELSE LET last == q.items[Len(q.items)]
             r == pop_n([q EXCEPT !.items = SubSeq(@, 1, Len(@) - 1)], n - 1)
         IN  <<(<<last>>) \o r[1], r[2]>>

\* popleft() for _ in range(n): <<the chunks in the order popped, the deque after>>
RECURSIVE popleft_n(_, _)
popleft_n(q, n) ==
    IF n = 0 THEN <<(<<>>), q>>
    ELSE LET p == popleft(q)
             r == popleft_n(p[2], n - 1)
         IN  <<(<<p[1]>>) \o r[1], r[2]>>

\* One iteration of the _sender loop.
sender ==
    /\ run_flag
    /\ IF Len(tx_buffer.items) < tx_chunks_per_pkt
       THEN \* wait for enough chunks: sleep, continue
            /\ UNCHANGED tx_buffer
            /\ sent' = <<>>
       ELSE LET p == popleft_n(tx_buffer, tx_chunks_per_pkt) IN
            /\ tx_buffer' = p[2]
            /\ sent' = <<sendto(join(p[1]), dst_address)>>
    /\ UNCHANGED <<is_server, dst_address, rx_buffer, tx_chunk_size,
                   rx_chunk_size, tx_chunks_per_pkt, rx_chunks_per_pkt,
                   run_flag, sender_config, receiver_config, last_from, tx_seq>>
    /\ UNCHANGED <<loopVars, codecVars, controlVars, audioVars>>

\* BytesIO.read(n) on the bytes not yet read: at most n of them
read(stream, n) == SubSeq(stream, 1, IF n < Len(stream) THEN n ELSE Len(stream))

\* while chunk := payload_stream.read(size): buffer.append(chunk)
RECURSIVE append_chunks(_, _, _)
append_chunks(q, stream, size) ==
    LET chunk == read(stream, size) IN
    IF chunk = <<>> THEN q
    ELSE append_chunks(append(q, chunk),
                       SubSeq(stream, Len(chunk) + 1, Len(stream)), size)

\* The server keeps the first sender as the destination.
first_sender(sender_address) ==
    IF is_server /\ dst_address = NO_ADDRESS THEN sender_address ELSE dst_address

\* The server sets the destination to the latest sender.
latest_sender(sender_address) ==
    IF is_server THEN sender_address ELSE dst_address

\* One iteration of the _receiver loop in which recvfrom returns a datagram.
receiver(payload, sender_address) ==
    /\ run_flag
    /\ dst_address' = latest_sender(sender_address)
    /\ rx_buffer' = append_chunks(rx_buffer, payload, rx_chunk_size)
    /\ last_from' = sender_address
    /\ sent' = <<>>
    /\ UNCHANGED <<is_server, tx_buffer, tx_chunk_size, rx_chunk_size,
                   tx_chunks_per_pkt, rx_chunks_per_pkt, run_flag,
                   sender_config, receiver_config, tx_seq>>
    /\ UNCHANGED <<loopVars, codecVars, controlVars, audioVars>>

\* One iteration of the _receiver loop in which recvfrom times out.
receiver_timeout ==
    /\ run_flag
    /\ sent' = <<>>
    /\ UNCHANGED <<is_server, dst_address, tx_buffer, rx_buffer, tx_chunk_size,
                   rx_chunk_size, tx_chunks_per_pkt, rx_chunks_per_pkt,
                   run_flag, sender_config, receiver_config, last_from, tx_seq>>
    /\ UNCHANGED <<loopVars, codecVars, controlVars, audioVars>>

\* The datagram a peer whose sender configuration is c sends: the chunks of
\* one packet, the i-th filled with the byte (i - 1) % NumTags.
PeerDatagram(c) ==
    join([i \in 1..(MAX_PACKET_SIZE \div chunk_size(c)) |->
              Fill((i - 1) % NumTags, chunk_size(c))])

\* What recvfrom may return: the packets of peers of every configuration
\* (a peer may still use the configuration from before a reload), and the
\* empty datagram.
InboundDatagrams == {PeerDatagram(c) : c \in DeviceConfigs} \cup {<<>>}

Sources == IF is_server THEN Peers ELSE {SERVER_ADDRESS, "A"}

Restart == \E s \in DeviceConfigs, r \in DeviceConfigs : restart(s, r)

Receiver == \E d \in InboundDatagrams, a \in Sources : receiver(d, a)

Next ==
    \/ CaptureWorker
    \/ get_chunk
    \/ sender
    \/ Receiver
    \/ receiver_timeout
    \/ stop
    \/ Restart

Spec == Init /\ [][Next]_vars

-----------------------------------------------------------------------------
(* data_channel.py : the loop threads, stop() and restart(), statement by   *)
(* statement.  sender_pc and receiver_pc name the statement the thread      *)
(* executes next; "done" is a thread that left its loop, "raised" a thread  *)
(* that an exception ended.                                                  *)

\* What neither loop thread nor stop() assigns.
loop_frame ==
    /\ UNCHANGED <<is_server, tx_chunk_size, rx_chunk_size, tx_chunks_per_pkt,
                   rx_chunks_per_pkt, sender_config, receiver_config, tx_seq>>
    /\ UNCHANGED <<codecVars, controlVars, audioVars>>

\* What the sender thread does not assign.
sender_frame ==
    /\ UNCHANGED <<dst_address, rx_buffer, run_flag, last_from, receiver_pc,
                   receiver_stream, call_pc, call_args>>
    /\ loop_frame

\* What the receiver thread does not assign.
receiver_frame ==
    /\ sent' = <<>>
    /\ UNCHANGED <<tx_buffer, run_flag, sender_pc, sender_popped, call_pc,
                   call_args>>
    /\ loop_frame

\* _sender: while self.run_flag:
sender_while ==
    /\ sender_pc = "while"
    /\ sender_pc' = IF run_flag THEN "if" ELSE "done"
    /\ sent' = <<>>
    /\ UNCHANGED <<tx_buffer, sender_popped, wire>>
    /\ sender_frame

\* A sender loop that goes on to pop as soon as the queue holds one chunk.
sender_if_AnyChunk ==
    /\ sender_pc = "if"
    /\ sender_pc' = IF Len(tx_buffer.items) < 1 THEN "while" ELSE "popleft"
    /\ sent' = <<>>
    /\ UNCHANGED <<tx_buffer, sender_popped, wire>>
    /\ sender_frame

\* _sender: if len(self.tx_buffer) < self.tx_chunks_per_pkt: sleep, continue
sender_if ==
    /\ sender_pc = "if"
    /\ sender_pc' = IF Len(tx_buffer.items) < tx_chunks_per_pkt
                    THEN "while" ELSE "popleft"
    /\ sent' = <<>>
    /\ UNCHANGED <<tx_buffer, sender_popped, wire>>
    /\ sender_frame

\* A sender loop that takes its chunks from the tail of the deque (pop()).
sender_popleft_FromTail ==
    /\ sender_pc = "popleft"
    /\ Len(sender_popped) < tx_chunks_per_pkt
    /\ IF tx_buffer.items = <<>>
       THEN /\ sender_pc' = "raised"
            /\ sender_popped' = <<>>
            /\ UNCHANGED tx_buffer
       ELSE /\ sender_popped' = Append(sender_popped, pop_n(tx_buffer, 1)[1][1])
            /\ tx_buffer' = pop_n(tx_buffer, 1)[2]
            /\ UNCHANGED sender_pc
    /\ sent' = <<>>
    /\ UNCHANGED wire
    /\ sender_frame

\* _sender: one self.tx_buffer.popleft() of the generator handed to join;
\* on an empty deque it raises IndexError, which ends the thread.
sender_popleft ==
    /\ sender_pc = "popleft"
    /\ Len(sender_popped) < tx_chunks_per_pkt
    /\ IF tx_buffer.items = <<>>
       THEN /\ sender_pc' = "raised"
            /\ sender_popped' = <<>>
            /\ UNCHANGED tx_buffer
       ELSE /\ sender_popped' = Append(sender_popped, popleft(tx_buffer)[1])
            /\ tx_buffer' = popleft(tx_buffer)[2]
            /\ UNCHANGED sender_pc
    /\ sent' = <<>>
    /\ UNCHANGED wire
    /\ sender_frame

\* _sender: payload = b''.join(...); self.socket.sendto(payload, self.dst_address)
sender_sendto ==
    /\ sender_pc = "popleft"
    /\ Len(sender_popped) = tx_chunks_per_pkt
    /\ sent' = <<sendto(join(sender_popped), dst_address)>>
    /\ sender_popped' = <<>>
    /\ sender_pc' = "while"
    /\ UNCHANGED tx_buffer
    /\ sender_frame

\* The receiver loop goes on whatever the run flag is.
receiver_while_Forever ==
    /\ receiver_pc = "while"
    /\ receiver_pc' = "recvfrom"
    /\ UNCHANGED <<dst_address, rx_buffer, last_from, receiver_stream, wire>>
    /\ receiver_frame

\* _receiver: while self.run_flag:
receiver_while ==
    /\ receiver_pc = "while"
    /\ receiver_pc' = IF run_flag THEN "recvfrom" ELSE "done"
    /\ UNCHANGED <<dst_address, rx_buffer, last_from, receiver_stream, wire>>
    /\ receiver_frame

\* _receiver: recvfrom returns a datagram; the destination is set and
\* payload_stream = BytesIO(payload)
receiver_recvfrom(payload, sender_address) ==
    /\ receiver_pc = "recvfrom"
    /\ dst_address' = latest_sender(sender_address)
    /\ last_from' = sender_address
    /\ receiver_stream' = payload
    /\ receiver_pc' = "read"
    /\ UNCHANGED rx_buffer
    /\ receiver_frame

\* _receiver: recvfrom raises TimeoutError: continue
receiver_recvfrom_timeout ==
    /\ receiver_pc = "recvfrom"
    /\ receiver_pc' = "while"
    /\ UNCHANGED <<dst_address, rx_buffer, last_from, receiver_stream, wire>>
    /\ receiver_frame

\* _receiver: while chunk := payload_stream.read(self.rx_chunk_size):
\*                self.rx_buffer.append(chunk)
receiver_read ==
    /\ receiver_pc = "read"
    /\ LET chunk == read(receiver_stream, rx_chunk_size) IN
       IF chunk = <<>>
       THEN /\ receiver_pc' = "while"
            /\ UNCHANGED <<rx_buffer, receiver_stream>>
       ELSE /\ rx_buffer' = append(rx_buffer, chunk)
            /\ receiver_stream' = SubSeq(receiver_stream, Len(chunk) + 1,
                                         Len(receiver_stream))
            /\ UNCHANGED receiver_pc
    /\ UNCHANGED <<dst_address, last_from, wire>>
    /\ receiver_frame

\* What the statements of stop() and restart() other than _setup and _start
\* do not assign.
call_frame ==
    /\ sent' = <<>>
    /\ UNCHANGED <<dst_address, tx_buffer, rx_buffer, last_from, sender_pc,
                   sender_popped, receiver_pc, receiver_stream, wire>>
    /\ loop_frame

\* stop(): self.run_flag = False
stop_run_flag ==
    /\ call_pc = "idle"
    /\ run_flag' = FALSE
    /\ call_pc' = "sender_thread.join"
    /\ call_args' = None
    /\ call_frame

\* restart(sender_config, receiver_config): self.stop() is entered
restart_stop(s_config, r_config) ==
    /\ call_pc = "idle"
    /\ run_flag' = FALSE
    /\ call_pc' = "sender_thread.join"
    /\ call_args' = [sender_config |-> s_config, receiver_config |-> r_config]
    /\ call_frame

\* stop(): self.sender_thread.join() returns once the thread is over
sender_thread_join ==
    /\ call_pc = "sender_thread.join"
    /\ sender_pc \in {"done", "raised"}
    /\ call_pc' = "receiver_thread.join"
    /\ UNCHANGED <<run_flag, call_args>>
    /\ call_frame

\* stop(): self.receiver_thread.join(); stop() returns, to its caller or
\* into restart()
receiver_thread_join ==
    /\ call_pc = "receiver_thread.join"
    /\ receiver_pc = "done"
    /\ call_pc' = IF call_args = None THEN "idle" ELSE "_setup"
    /\ UNCHANGED <<run_flag, call_args>>
    /\ call_frame

\* A restart that sets the parameters up and keeps the old queues.
restart_setup_KeepQueues ==
    /\ call_pc = "_setup"
    /\ LET new == setup(call_args.sender_config, call_args.receiver_config) IN
         /\ tx_chunk_size' = new.tx_chunk_size
         /\ rx_chunk_size' = new.rx_chunk_size
         /\ tx_chunks_per_pkt' = new.tx_chunks_per_pkt
         /\ rx_chunks_per_pkt' = new.rx_chunks_per_pkt
         /\ tx_buffer' = [tx_buffer EXCEPT !.maxlen = new.tx_buffer.maxlen]
         /\ rx_buffer' = [rx_buffer EXCEPT !.maxlen = new.rx_buffer.maxlen]
    /\ sender_config' = call_args.sender_config
    /\ receiver_config' = call_args.receiver_config
    /\ call_pc' = "_start"
    /\ sent' = <<>>
    /\ UNCHANGED <<is_server, dst_address, run_flag, last_from, tx_seq,
                   sender_pc, sender_popped, receiver_pc, receiver_stream,
                   call_args, wire>>
    /\ UNCHANGED <<codecVars, controlVars, audioVars>>

\* restart(): self._setup(sender_config, receiver_config)
restart_setup ==
    /\ call_pc = "_setup"
    /\ SetupAssigns(setup(call_args.sender_config, call_args.receiver_config),
                    tx_buffer', rx_buffer', tx_chunk_size', rx_chunk_size',
                    tx_chunks_per_pkt', rx_chunks_per_pkt')
    /\ sender_config' = call_args.sender_config
    /\ receiver_config' = call_args.receiver_config
    /\ call_pc' = "_start"
    /\ sent' = <<>>
    /\ UNCHANGED <<is_server, dst_address, run_flag, last_from, tx_seq,
                   sender_pc, sender_popped, receiver_pc, receiver_stream,
                   call_args, wire>>
    /\ UNCHANGED <<codecVars, controlVars, audioVars>>

\* restart(): self._start() sets the run flag and starts two new threads
restart_start ==
    /\ call_pc = "_start"
    /\ run_flag' = TRUE
    /\ sender_pc' = "while"
    /\ sender_popped' = <<>>
    /\ receiver_pc' = "while"
    /\ receiver_stream' = <<>>
    /\ call_pc' = "idle"
    /\ call_args' = None
    /\ sent' = <<>>
    /\ UNCHANGED <<dst_address, tx_buffer, rx_buffer, last_from, wire>>
    /\ loop_frame

\* Configurations with short queues and few chunks per packet: 3 chunks of
\* 320 bytes in the queue and in a packet, and 4 chunks of 512 bytes in the
\* queue with 2 in a packet.
LoopConfigs ==
    { AudioConfig(500, 5, AUDIO_DTYPE, FRAMES_PER_CHUNK),
      AudioConfig(640, 8, AUDIO_DTYPE, FRAMES_PER_CHUNK) }

\* A client-side endpoint whose loops run.
LoopInit ==
    /\ DataChannelInit
    /\ ~is_server
    /\ sender_config \in LoopConfigs
    /\ receiver_config = sender_config
    /\ CodecIdle
    /\ ControlIdle
    /\ AudioIdle

\* One endpoint with its two workers, its loop threads and the thread that
\* calls stop() and restart(); datagrams come from the server, which may
\* still use the configuration from before a restart.
LoopNext ==
    \/ CaptureWorker
    \/ get_chunk
    \/ sender_while
    \/ sender_if
    \/ sender_popleft
    \/ sender_sendto /\ UNCHANGED wire
    \/ receiver_while
    \/ \E c \in LoopConfigs :
          receiver_recvfrom(PeerDatagram(c), SERVER_ADDRESS) /\ UNCHANGED wire
    \/ receiver_recvfrom_timeout
    \/ receiver_read
    \/ stop_run_flag
    \/ \E c \in LoopConfigs : restart_stop(c, c)
    \/ sender_thread_join
    \/ receiver_thread_join
    \/ restart_setup
    \/ restart_start

LoopSpec == LoopInit /\ [][LoopNext]_vars

\* The chunks the capture worker of a session puts.
PathChunks == 7

\* The sending endpoint's capture worker puts its next chunk; the chunks of
\* a session are numbered from 0.
PathProducer ==
    /\ tx_seq < PathChunks
    /\ put_chunk(Fill(tx_seq, tx_chunk_size))
    /\ tx_seq' = tx_seq + 1

\* A datagram the sender loop hands to the socket is lost or joins the
\* datagrams under way.
Network(datagrams) == {wire, wire \o datagrams}

\* One session from a sending endpoint (the tx half) to a receiving
\* endpoint (the rx half) of the same configuration, over a network that
\* loses datagrams and delivers the others once, in sending order.
PathInit == LoopInit

PathNext ==
    \/ PathProducer
    \/ get_chunk
    \/ sender_while
    \/ sender_if
    \/ sender_popleft
    \/ sender_sendto /\ wire' \in Network(<<join(sender_popped)>>)
    \/ receiver_while
    \/ wire # <<>> /\ receiver_recvfrom(Head(wire), SERVER_ADDRESS)
                   /\ wire' = Tail(wire)
    \/ receiver_recvfrom_timeout
    \/ receiver_read

PathSpec == PathInit /\ [][PathNext]_vars

\* A step of the sender thread, and one of the receiver thread.
sender_thread ==
    \/ sender_while
    \/ sender_if
    \/ sender_popleft
    \/ sender_sendto /\ UNCHANGED wire
receiver_thread ==
    \/ receiver_while
    \/ \E c \in LoopConfigs :
          receiver_recvfrom(PeerDatagram(c), SERVER_ADDRESS) /\ UNCHANGED wire
    \/ receiver_recvfrom_timeout
    \/ receiver_read

\* Both loop threads and the thread inside stop() keep being scheduled;
\* sleep and recvfrom return after their timeouts.
LoopFairness ==
    /\ WF_vars(sender_thread)
    /\ WF_vars(receiver_thread)
    /\ WF_vars(sender_thread_join)
    /\ WF_vars(receiver_thread_join)

\* The channel is stopped once, at any moment, and is not started again;
\* its peer sends packets of the configuration the channel receives.
StopNext ==
    \/ CaptureWorker
    \/ get_chunk
    \/ sender_thread
    \/ receiver_while
    \/ receiver_recvfrom(PeerDatagram(receiver_config), SERVER_ADDRESS)
          /\ UNCHANGED wire
    \/ receiver_recvfrom_timeout
    \/ receiver_read
    \/ stop_run_flag
    \/ sender_thread_join
    \/ receiver_thread_join

StopSpec == LoopInit /\ [][StopNext]_vars

StopFairSpec == StopSpec /\ LoopFairness

-----------------------------------------------------------------------------
(* The AudioConfig codec on its own: to_bytes on a configuration, from_bytes *)
(* on that serialization or on any other payload a datagram may carry.       *)

\* The valid configurations: four positive integer fields.
CodecConfigs ==
    DeviceConfigs \cup
    { AudioConfig(r, ch, f, n) :
        r \in {8000, 44100, 48000}, ch \in {1, 2}, f \in {AUDIO_DTYPE, 2},
        n \in {FRAMES_PER_CHUNK, 1024} }

\* The text of a JSON object whose members are <<key, text of the value>>.
RECURSIVE members_text(_, _, _)
members_text(members, item_separator, key_separator) ==
    IF members = <<>> THEN <<>>
    ELSE LET m == Head(members)
             text == <<"\"">> \o m[1] \o <<"\"">> \o key_separator \o m[2]
         IN  IF Len(members) = 1 THEN text
             ELSE text \o item_separator
                  \o members_text(Tail(members), item_separator, key_separator)

object_text(members, item_separator, key_separator) ==
    <<"{">> \o members_text(members, item_separator, key_separator) \o <<"}">>

\* The members of the serialization of c.
Members(c) == [i \in 1..4 |-> <<to_dict(c)[i][1], str(to_dict(c)[i][2])>>]

\* Payloads that are a JSON object with exactly the four keys, each bound
\* to an integer, other than the text to_bytes writes.
WellFormedKinds == {"compact", "padded", "reordered", "negative"}

\* Payloads that are not such an object.
MalformedKinds ==
    {"missing_key", "extra_key", "renamed_key", "float_value",
     "exponent_value", "string_value", "bool_value", "null_value",
     "list_value", "object_value", "leading_zero", "empty_object", "array",
     "number", "string", "null", "not_json", "empty", "truncated",
     "trailing", "single_quotes", "non_utf8"}

\* The payload of the given kind made of configuration c; i is the member
\* the kind alters.
Payload(kind, c, i) ==
    LET m == Members(c)
        v == m[i][2]
        with(text) == object_text([m EXCEPT ![i][2] = text], <<",", " ">>, <<":", " ">>)
    IN  CASE kind = "compact" -> object_text(m, <<",">>, <<":">>)
          [] kind = "padded" -> <<" ">> \o to_bytes(c) \o <<"\n">>
          [] kind = "reordered" ->
                object_text([k \in 1..4 |-> m[5 - k]], <<",", " ">>, <<":", " ">>)
          [] kind = "negative" -> with(<<"-">> \o v)
          [] kind = "missing_key" ->
                object_text([k \in 1..3 |-> m[IF k < i THEN k ELSE k + 1]],
                            <<",", " ">>, <<":", " ">>)
          [] kind = "extra_key" ->
                object_text(Append(m, <<(<<"x">>), v>>), <<",", " ">>, <<":", " ">>)
          [] kind = "renamed_key" ->
                object_text([m EXCEPT ![i][1] = Tail(@)], <<",", " ">>, <<":", " ">>)
          [] kind = "float_value" -> with(v \o <<".", "0">>)
          [] kind = "exponent_value" -> with(v \o <<"e", "0">>)
          [] kind = "string_value" -> with(<<"\"">> \o v \o <<"\"">>)
          [] kind = "bool_value" -> with(<<"t", "r", "u", "e">>)
          [] kind = "null_value" -> with(<<"n", "u", "l", "l">>)
          [] kind = "list_value" -> with(<<"[">> \o v \o <<"]">>)
          [] kind = "object_value" -> with(<<"{", "}">>)
          [] kind = "leading_zero" -> with(<<"0">> \o v)
          [] kind = "empty_object" -> <<"{", "}">>
          [] kind = "array" ->
                <<"[">> \o m[1][2] \o <<",", " ">> \o m[2][2] \o <<",", " ">>
                \o m[3][2] \o <<",", " ">> \o m[4][2] \o <<"]">>
          [] kind = "number" -> v
          [] kind = "string" -> <<"\"">> \o m[i][1] \o <<"\"">>
          [] kind = "null" -> <<"n", "u", "l", "l">>
          [] kind = "not_json" -> <<"T", "O", "P">>
          [] kind = "empty" -> <<>>
          [] kind = "truncated" -> SubSeq(to_bytes(c), 1, Len(to_bytes(c)) - i)
          [] kind = "trailing" -> to_bytes(c) \o <<"}">>
          [] kind = "single_quotes" ->
                [k \in 1..Len(to_bytes(c)) |->
                    IF to_bytes(c)[k] = "\"" THEN "'" ELSE to_bytes(c)[k]]
          [] kind = "non_utf8" -> <<NON_UTF8>> \o to_bytes(c)

CodecInit ==
    /\ DataChannelIdle
    /\ ControlIdle
    /\ AudioIdle
    /\ codec_pc = "config"
    /\ codec_config \in CodecConfigs
    /\ codec_kind = "none"
    /\ codec_data = <<>>
    /\ codec_result = None

\* c.to_bytes()
Serialize ==
    /\ codec_pc = "config"
    /\ codec_data' = to_bytes(codec_config)
    /\ codec_kind' = "to_bytes"
    /\ codec_pc' = "data"
    /\ UNCHANGED <<codec_config, codec_result, dataVars, controlVars, audioVars>>

\* A datagram brings some other payload.
OtherPayload ==
    /\ codec_pc = "config"
    /\ \E kind \in WellFormedKinds \cup MalformedKinds, i \in 1..4 :
          /\ codec_data' = Payload(kind, codec_config, i)
          /\ codec_kind' = kind
    /\ codec_pc' = "data"
    /\ UNCHANGED <<codec_config, codec_result, dataVars, controlVars, audioVars>>

\* AudioConfig.from_bytes(data)
Parse ==
    /\ codec_pc = "data"
    /\ codec_result' = from_bytes(codec_data)
    /\ codec_pc' = "decoded"
    /\ UNCHANGED <<codec_config, codec_kind, codec_data, dataVars, controlVars, audioVars>>

CodecNext == Serialize \/ OtherPayload \/ Parse

CodecSpec == CodecInit /\ [][CodecNext]_vars

-----------------------------------------------------------------------------
(* control_channel.py : the UDP control channel                              *)

SPEAKER_CONFIG ==
    <<"S", "P", "E", "A", "K", "E", "R", "_", "C", "O", "N", "F", "I", "G">>
MICROPHONE_CONFIG ==
    <<"M", "I", "C", "R", "O", "P", "H", "O", "N", "E", "_",
      "C", "O", "N", "F", "I", "G">>
TOGGLE_MICROPHONE ==
    <<"T", "O", "G", "G", "L", "E", "_",
      "M", "I", "C", "R", "O", "P", "H", "O", "N", "E">>
HEARTBEAT == <<"H", "E", "A", "R", "T", "B", "E", "A", "T">>
STOP == <<"S", "T", "O", "P">>
START == <<"S", "T", "A", "R", "T">>
MIC_ON == <<"M", "I", "C", " ", "O", "N">>
MIC_OFF == <<"M", "I", "C", " ", "O", "F", "F">>

\* _send_client_with_retries: attempts
ATTEMPTS == 3

\* The datagrams a socket's receive buffer holds at most.
SocketBufferLen == 2

\* The address of the client's control socket, and of some other host.
CLIENT_ADDRESS == "A"
STRANGER_ADDRESS == "B"

\* What recvfrom returns: the payload and the address it came from.
datagram(payload, address) == [payload |-> payload, address |-> address]

\* A datagram reaches a socket whose buffer holds queue; a full buffer
\* drops it.
enqueue(queue, d) ==
    IF Len(queue) < SocketBufferLen THEN Append(queue, d) ELSE queue

\* data[:1] and data[1:]
prefix_byte(bytes) == IF bytes = <<>> THEN <<>> ELSE <<bytes[1]>>
config_bytes(bytes) ==
    IF Len(bytes) <= 1 THEN <<>> ELSE SubSeq(bytes, 2, Len(bytes))

\* server.py : the audio devices and the workers ---------------------------

FORMAT == 8               \* pyaudio.paInt16
NUM_FRAMES == 32

\* What get_default_output_device_info and get_default_input_device_info
\* raise an IOError for: there is no default device.
NO_DEVICE == [name |-> "none"]

\* The device_info dictionaries of the output and of the input devices.
OutputDevices ==
    { [name |-> "Speakers", defaultSampleRate |-> 44100,
       maxOutputChannels |-> 2],
      [name |-> "Headphones", defaultSampleRate |-> 96000,
       maxOutputChannels |-> 2] }
InputDevices ==
    { [name |-> "Microphone", defaultSampleRate |-> 48000,
       maxInputChannels |-> 2],
      [name |-> "Headset", defaultSampleRate |-> 96000,
       maxInputChannels |-> 2] }

\* The default output and input device of the system at some moment.
devices(output, input) == [output |-> output, input |-> input]

DefaultDevices ==
    { devices(o, i) : o \in OutputDevices \cup {NO_DEVICE}, i \in InputDevices }

\* An audio interface after terminate().
TERMINATED == [terminated |-> TRUE]

\* pyaudio.PyAudio(): the interface keeps the default devices of the moment
\* it was made at.
PyAudio == default_devices

\* Speaker.__init__: self.config
Speaker_config(device_info) ==
    AudioConfig(IF device_info.defaultSampleRate > 48000
                THEN device_info.defaultSampleRate ELSE 48000,
                device_info.maxOutputChannels, FORMAT, NUM_FRAMES)

\* Microphone.__init__: self.config
Microphone_config(device_info) ==
    AudioConfig(device_info.defaultSampleRate,
                device_info.maxInputChannels, FORMAT, NUM_FRAMES)

\* Speaker(app) and Microphone(app) raise when the interface is terminated
\* or has no default device.
Speaker_raises(interface) ==
    interface = TERMINATED \/ interface.output = NO_DEVICE
Microphone_raises(interface) ==
    interface = TERMINATED \/ interface.input = NO_DEVICE

\* Thread.start: a thread can only be started once.
start_raises(started) == started

\* ControlChannelServer ----------------------------------------------------

\* The configs the app_server's speaker and microphone workers may hold:
\* AudioConfig instances of utils.py, made for the default devices.
WorkerConfigs ==
    {Speaker_config(d) : d \in OutputDevices} \cup
    {Microphone_config(d) : d \in InputDevices}

\* Both requests are answered with the speaker's config.
requested_config_Speaker(command) == speaker_config

\* The config a request asks for.
requested_config(command) ==
    IF command = SPEAKER_CONFIG THEN speaker_config ELSE microphone_config

\* The reply carries the whole command in front of the config.
config_reply_WholeCommand(command, config) == command \o to_bytes(config)

\* command[:1] + config.to_bytes()
config_reply(command, config) == prefix_byte(command) \o to_bytes(config)

\* The reply tells the state the microphone is not in.
toggle_reply_Inverted(is_alive) == IF is_alive THEN MIC_OFF ELSE MIC_ON

\* b'MIC ON' if self.app_server.microphone.is_alive() else b'MIC OFF'
toggle_reply(is_alive) == IF is_alive THEN MIC_ON ELSE MIC_OFF

\* Speaker.stop: the thread, if alive, is joined; then a fresh Speaker is
\* put into the app's slot, unless making it raises.
Speaker_stop ==
    /\ speaker_alive' = FALSE
    /\ IF Speaker_raises(audio_interface)
       THEN UNCHANGED <<speaker_started, speaker_config>>
       ELSE /\ speaker_started' = FALSE
            /\ speaker_config' = Speaker_config(audio_interface.output)

\* Microphone.stop
Microphone_stop ==
    /\ microphone_alive' = FALSE
    /\ IF Microphone_raises(audio_interface)
       THEN UNCHANGED <<microphone_started, microphone_config>>
       ELSE /\ microphone_started' = FALSE
            /\ microphone_config' = Microphone_config(audio_interface.input)

\* microphone.start(): run opens its stream at once, and raises when the
\* audio interface is terminated, so that the thread may be over already
\* when is_alive is asked.
Microphone_start ==
    /\ microphone_started' = TRUE
    /\ microphone_alive' \in
          IF audio_interface = TERMINATED THEN BOOLEAN ELSE {TRUE}
    /\ UNCHANGED microphone_config

\* cycle holds the step named step.
InCycle(step) == \E i \in 1..Len(cycle) : cycle[i] = step

\* cycle, marked in front when a TOGGLE_MICROPHONE is handled while a
\* reload cycle is in progress.
toggled(command) ==
    IF command = TOGGLE_MICROPHONE /\ reload_pc \notin {"wait", "dead"}
       /\ ~InCycle("toggle")
    THEN <<"toggle">> \o cycle
    ELSE cycle

\* Every command makes its sender the client.
address_kept_Sender(command, sender_address, previous_client_address) ==
    sender_address

\* self.client_address once the match statement is over: the address
\* recvfrom gave, reverted on an unknown command.
address_kept(command, sender_address, previous_client_address) ==
    IF command \in {SPEAKER_CONFIG, MICROPHONE_CONFIG, TOGGLE_MICROPHONE,
                    HEARTBEAT}
    THEN sender_address
    ELSE previous_client_address

\* match command: the reply, the toggle of the microphone, or the revert of
\* self.client_address, for a command that came from sender_address while
\* the client address was previous_client_address.
match_command(command, sender_address, previous_client_address) ==
    /\ client_address' =
          address_kept(command, sender_address, previous_client_address)
    /\ IF command \in {SPEAKER_CONFIG, MICROPHONE_CONFIG} THEN
          /\ control_sent' =
                <<sendto(config_reply(command, requested_config(command)),
                         client_address')>>
          /\ UNCHANGED <<microphone_alive, microphone_started,
                         microphone_config, handler_alive>>
       ELSE IF command = TOGGLE_MICROPHONE THEN
          /\ IF microphone_alive THEN
                /\ Microphone_stop
                /\ handler_alive' = ~Microphone_raises(audio_interface)
             ELSE IF start_raises(microphone_started) THEN
                /\ handler_alive' = FALSE
                /\ UNCHANGED <<microphone_alive, microphone_started,
                               microphone_config>>
             ELSE
                /\ Microphone_start
                /\ UNCHANGED handler_alive
          /\ control_sent' =
                IF handler_alive'
                THEN <<sendto(toggle_reply(microphone_alive'),
                              client_address')>>
                ELSE <<>>
       ELSE IF command = HEARTBEAT THEN
          /\ control_sent' = <<>>
          /\ UNCHANGED <<microphone_alive, microphone_started,
                         microphone_config, handler_alive>>
       ELSE \* Revert client address on unknown command
          /\ control_sent' = <<>>
          /\ UNCHANGED <<microphone_alive, microphone_started,
                         microphone_config, handler_alive>>
    /\ cycle' = toggled(command)
    /\ UNCHANGED <<speaker_config, speaker_alive, speaker_started,
                   microphone_orphan, reload_pc>>
    /\ UNCHANGED <<deviceVars, is_speaker_on, is_microphone_on, init_pc>>
    /\ UNCHANGED <<clientVars, dataVars, codecVars, audioVars>>

\* One iteration of _request_handler.
request_handler ==
    /\ handler_alive
    /\ handler_recv = None
    /\ server_socket # <<>>
    /\ server_socket' = Tail(server_socket)
    /\ match_command(Head(server_socket).payload, Head(server_socket).address,
                     client_address)
    /\ UNCHANGED handler_recv

\* _request_handler, statement by statement --------------------------------

\* previous_client_address = self.client_address
\* command, self.client_address = self.server_socket.recvfrom(MAX_PACKET_SIZE)
handler_recvfrom ==
    /\ handler_alive
    /\ handler_recv = None
    /\ server_socket # <<>>
    /\ handler_recv' = [command |-> Head(server_socket).payload,
                        previous_client_address |-> client_address]
    /\ client_address' = Head(server_socket).address
    /\ server_socket' = Tail(server_socket)
    /\ control_sent' = <<>>
    /\ UNCHANGED <<speaker_config, microphone_config, microphone_alive,
                   reload_pc>>
    /\ UNCHANGED <<workerVars, deviceVars, reloadVars, init_pc>>
    /\ UNCHANGED <<clientVars, dataVars, codecVars, audioVars>>

\* match command: the rest of the iteration
handler_match ==
    /\ handler_alive
    /\ handler_recv # None
    /\ match_command(handler_recv.command, client_address,
                     handler_recv.previous_client_address)
    /\ handler_recv' = None
    /\ UNCHANGED server_socket

\* _send_client_with_retries: sendto raises OSError, which is suppressed,
\* while client_address is still the placeholder.
send_client_with_retries(bytes) ==
    control_sent' =
        IF client_address = NO_ADDRESS
        THEN <<sendto(bytes, client_address)>>
        ELSE [i \in 1..ATTEMPTS |-> sendto(bytes, client_address)]

\* reload_pyaudio: self.control.stop_client()
stop_client ==
    /\ reload_pc = "wait"
    /\ send_client_with_retries(STOP)
    /\ reload_pc' = "devices"
    /\ UNCHANGED <<client_address, speaker_config, microphone_config,
                   microphone_alive, server_socket>>
    /\ UNCHANGED <<workerVars, deviceVars, reloadVars, init_pc,
                   handler_recv>>
    /\ UNCHANGED <<clientVars, dataVars, codecVars, audioVars>>

\* reload_pyaudio: both workers are stopped and made again for the default
\* devices of the moment; those that were alive are started.
reload_devices ==
    /\ reload_pc = "devices"
    /\ \E d \in DefaultDevices :
          /\ ~Speaker_raises(d)
          /\ default_devices' = d
          /\ audio_interface' = d
          /\ speaker_config' = Speaker_config(d.output)
          /\ microphone_config' = Microphone_config(d.input)
    /\ reload_pc' = "start"
    /\ control_sent' = <<>>
    /\ UNCHANGED <<client_address, microphone_alive, server_socket>>
    /\ UNCHANGED <<workerVars, current_devices, monitor_alive, need_reload,
                   reloadVars, init_pc, handler_recv>>
    /\ UNCHANGED <<clientVars, dataVars, codecVars, audioVars>>

\* reload_pyaudio: self.control.start_client()
start_client ==
    /\ reload_pc = "start"
    /\ send_client_with_retries(START)
    /\ reload_pc' = "wait"
    /\ UNCHANGED <<client_address, speaker_config, microphone_config,
                   microphone_alive, server_socket>>
    /\ UNCHANGED <<workerVars, deviceVars, reloadVars, init_pc,
                   handler_recv>>
    /\ UNCHANGED <<clientVars, dataVars, codecVars, audioVars>>

\* The commands the client sends: _get_audio_config, toggle_microphone,
\* _heartbeat.
ClientCommands ==
    {SPEAKER_CONFIG, MICROPHONE_CONFIG, TOGGLE_MICROPHONE, HEARTBEAT}

\* Datagrams of another host: a command the server does not know, and a
\* request of its own.
StrangerCommands == {<<"H", "E", "L", "L", "O">>, SPEAKER_CONFIG}

\* A datagram reaches the server's control socket.
server_arrival(command, address) ==
    /\ server_socket' = enqueue(server_socket, datagram(command, address))
    /\ control_sent' = <<>>
    /\ UNCHANGED <<client_address, speaker_config, microphone_config,
                   microphone_alive, reload_pc>>
    /\ UNCHANGED <<workerVars, deviceVars, reloadVars, init_pc,
                   handler_recv>>
    /\ UNCHANGED <<clientVars, dataVars, codecVars, audioVars>>

FromClient == \E command \in ClientCommands : server_arrival(command, CLIENT_ADDRESS)

FromStranger ==
    \E command \in StrangerCommands : server_arrival(command, STRANGER_ADDRESS)

\* SoundBridgeServer.__init__ and ControlChannelServer.__init__ have
\* returned: the audio interface is open, the monitor's first event has
\* been waited for and cleared, and both workers are made.
Constructed ==
    /\ client_address = NO_ADDRESS
    /\ audio_interface \in DefaultDevices
    /\ ~Speaker_raises(audio_interface)
    /\ default_devices = audio_interface
    /\ current_devices = audio_interface
    /\ monitor_alive = TRUE
    /\ need_reload = FALSE
    /\ speaker_config = Speaker_config(audio_interface.output)
    /\ microphone_config = Microphone_config(audio_interface.input)
    /\ microphone_orphan = FALSE
    /\ handler_alive = TRUE
    /\ init_pc = "done"
    /\ handler_recv = None
    /\ reload_pc = "wait"
    /\ is_speaker_on = FALSE
    /\ is_microphone_on = FALSE
    /\ cycle = <<>>
    /\ server_socket = <<>>
    /\ control_sent = <<>>

\* ControlChannelServer.__init__, with the app_server's workers made.  The
\* server's main starts the microphone worker once the server is built.
ServerInit ==
    /\ DataChannelIdle
    /\ CodecIdle
    /\ AudioIdle
    /\ ClientIdle
    /\ Constructed
    /\ speaker_alive = TRUE
    /\ speaker_started = TRUE
    /\ microphone_alive \in BOOLEAN
    /\ microphone_started = microphone_alive

ServerNext ==
    \/ request_handler
    \/ stop_client
    \/ reload_devices
    \/ start_client
    \/ FromClient
    \/ FromStranger

ServerSpec == ServerInit /\ [][ServerNext]_vars

\* The control server with the statements of _request_handler interleaved
\* with the pushes of the reload handler.
PushNext ==
    \/ handler_recvfrom
    \/ handler_match
    \/ stop_client
    \/ reload_devices
    \/ start_client
    \/ FromClient
    \/ FromStranger

PushSpec == ServerInit /\ [][PushNext]_vars

\* SoundBridgeServer.reload_pyaudio, statement by statement ------------------
\* reload_pc names the statement the reload handler thread executes next;
\* "dead" is the thread after an exception.

\* The variables no statement of reload_pyaudio assigns.
reload_frame ==
    /\ UNCHANGED <<client_address, server_socket, handler_alive,
                   default_devices, current_devices, monitor_alive,
                   init_pc, handler_recv>>
    /\ UNCHANGED <<clientVars, dataVars, codecVars, audioVars>>

\* self.control is assigned: the constructor has returned.  Before that,
\* reading self.control raises AttributeError.
has_control == init_pc = "done"

\* while self.need_reload.wait():
reload_wait ==
    /\ reload_pc = "wait"
    /\ need_reload
    /\ reload_pc' = "stop_client"
    /\ cycle' = <<>>
    /\ control_sent' = <<>>
    /\ UNCHANGED <<speaker_config, microphone_config, microphone_alive,
                   speaker_alive, speaker_started, microphone_started,
                   microphone_orphan, audio_interface, need_reload,
                   is_speaker_on, is_microphone_on>>
    /\ reload_frame

\* self.control.stop_client(); an AttributeError ends the thread
reload_stop_client ==
    /\ reload_pc = "stop_client"
    /\ IF has_control
       THEN /\ send_client_with_retries(STOP)
            /\ reload_pc' = "is_speaker_on"
            /\ cycle' = Append(cycle, "stop_client")
       ELSE /\ control_sent' = <<>>
            /\ reload_pc' = "dead"
            /\ UNCHANGED cycle
    /\ UNCHANGED <<speaker_config, microphone_config, microphone_alive,
                   speaker_alive, speaker_started, microphone_started,
                   microphone_orphan, audio_interface, need_reload,
                   is_speaker_on, is_microphone_on>>
    /\ reload_frame

\* is_speaker_on = self.speaker.is_alive()
reload_is_speaker_on ==
    /\ reload_pc = "is_speaker_on"
    /\ is_speaker_on' = speaker_alive
    /\ reload_pc' = "is_microphone_on"
    /\ control_sent' = <<>>
    /\ UNCHANGED <<speaker_config, microphone_config, microphone_alive,
                   speaker_alive, speaker_started, microphone_started,
                   microphone_orphan, audio_interface, need_reload,
                   is_microphone_on, cycle>>
    /\ reload_frame

\* is_microphone_on = self.microphone.is_alive()
reload_is_microphone_on ==
    /\ reload_pc = "is_microphone_on"
    /\ is_microphone_on' = microphone_alive
    /\ reload_pc' = "speaker_stop"
    /\ control_sent' = <<>>
    /\ UNCHANGED <<speaker_config, microphone_config, microphone_alive,
                   speaker_alive, speaker_started, microphone_started,
                   microphone_orphan, audio_interface, need_reload,
                   is_speaker_on, cycle>>
    /\ reload_frame

\* self.speaker.stop()
reload_speaker_stop ==
    /\ reload_pc = "speaker_stop"
    /\ Speaker_stop
    /\ reload_pc' =
          IF Speaker_raises(audio_interface) THEN "dead" ELSE "microphone_stop"
    /\ cycle' = Append(cycle, "speaker.stop")
    /\ control_sent' = <<>>
    /\ UNCHANGED <<microphone_config, microphone_alive, microphone_started,
                   microphone_orphan, audio_interface, need_reload,
                   is_speaker_on, is_microphone_on>>
    /\ reload_frame

\* self.microphone.stop()
reload_microphone_stop ==
    /\ reload_pc = "microphone_stop"
    /\ Microphone_stop
    /\ reload_pc' =
          IF Microphone_raises(audio_interface) THEN "dead" ELSE "terminate"
    /\ cycle' = Append(cycle, "microphone.stop")
    /\ control_sent' = <<>>
    /\ UNCHANGED <<speaker_config, speaker_alive, speaker_started,
                   microphone_orphan, audio_interface, need_reload,
                   is_speaker_on, is_microphone_on>>
    /\ reload_frame

\* self.audio_interface.terminate()
reload_terminate ==
    /\ reload_pc = "terminate"
    /\ audio_interface' = TERMINATED
    /\ reload_pc' = "PyAudio"
    /\ cycle' = Append(cycle, "terminate")
    /\ control_sent' = <<>>
    /\ UNCHANGED <<speaker_config, microphone_config, microphone_alive,
                   speaker_alive, speaker_started, microphone_started,
                   microphone_orphan, need_reload,
                   is_speaker_on, is_microphone_on>>
    /\ reload_frame

\* self.audio_interface = pyaudio.PyAudio()
reload_PyAudio ==
    /\ reload_pc = "PyAudio"
    /\ audio_interface' = PyAudio
    /\ reload_pc' = "Speaker"
    /\ cycle' = Append(cycle, "PyAudio")
    /\ control_sent' = <<>>
    /\ UNCHANGED <<speaker_config, microphone_config, microphone_alive,
                   speaker_alive, speaker_started, microphone_started,
                   microphone_orphan, need_reload,
                   is_speaker_on, is_microphone_on>>
    /\ reload_frame

\* self.speaker = Speaker(self)
reload_Speaker ==
    /\ reload_pc = "Speaker"
    /\ IF Speaker_raises(audio_interface)
       THEN /\ reload_pc' = "dead"
            /\ UNCHANGED <<speaker_config, speaker_alive, speaker_started>>
       ELSE /\ reload_pc' = "Microphone"
            /\ speaker_config' = Speaker_config(audio_interface.output)
            /\ speaker_alive' = FALSE
            /\ speaker_started' = FALSE
    /\ control_sent' = <<>>
    /\ UNCHANGED <<microphone_config, microphone_alive, microphone_started,
                   microphone_orphan, audio_interface, need_reload,
                   is_speaker_on, is_microphone_on, cycle>>
    /\ reload_frame

\* self.microphone = Microphone(self): a microphone worker that is alive
\* leaves the slot and keeps running.
reload_Microphone ==
    /\ reload_pc = "Microphone"
    /\ IF Microphone_raises(audio_interface)
       THEN /\ reload_pc' = "dead"
            /\ UNCHANGED <<microphone_config, microphone_alive,
                           microphone_started, microphone_orphan>>
       ELSE /\ reload_pc' = "speaker_start"
            /\ microphone_config' = Microphone_config(audio_interface.input)
            /\ microphone_orphan' = (microphone_orphan \/ microphone_alive)
            /\ microphone_alive' = FALSE
            /\ microphone_started' = FALSE
    /\ control_sent' = <<>>
    /\ UNCHANGED <<speaker_config, speaker_alive, speaker_started,
                   audio_interface, need_reload,
                   is_speaker_on, is_microphone_on, cycle>>
    /\ reload_frame

\* The speaker is started whether it was on or not.
reload_speaker_start_Always ==
    /\ reload_pc = "speaker_start"
    /\ IF start_raises(speaker_started) THEN
          /\ reload_pc' = "dead"
          /\ UNCHANGED <<speaker_alive, speaker_started, cycle>>
       ELSE
          /\ reload_pc' = "microphone_start"
          /\ speaker_alive' = TRUE
          /\ speaker_started' = TRUE
          /\ cycle' = Append(cycle, "speaker.start")
    /\ control_sent' = <<>>
    /\ UNCHANGED <<speaker_config, microphone_config, microphone_alive,
                   microphone_started, microphone_orphan, audio_interface,
                   need_reload, is_speaker_on, is_microphone_on>>
    /\ reload_frame

\* is_speaker_on and self.speaker.start()
reload_speaker_start ==
    /\ reload_pc = "speaker_start"
    /\ IF ~is_speaker_on THEN
          /\ reload_pc' = "microphone_start"
          /\ UNCHANGED <<speaker_alive, speaker_started, cycle>>
       ELSE IF start_raises(speaker_started) THEN
          /\ reload_pc' = "dead"
          /\ UNCHANGED <<speaker_alive, speaker_started, cycle>>
       ELSE
          /\ reload_pc' = "microphone_start"
          /\ speaker_alive' = TRUE
          /\ speaker_started' = TRUE
          /\ cycle' = Append(cycle, "speaker.start")
    /\ control_sent' = <<>>
    /\ UNCHANGED <<speaker_config, microphone_config, microphone_alive,
                   microphone_started, microphone_orphan, audio_interface,
                   need_reload, is_speaker_on, is_microphone_on>>
    /\ reload_frame

\* is_microphone_on and self.microphone.start()
reload_microphone_start ==
    /\ reload_pc = "microphone_start"
    /\ IF ~is_microphone_on THEN
          /\ reload_pc' = "start_client"
          /\ UNCHANGED <<microphone_alive, microphone_started,
                         microphone_config, cycle>>
       ELSE IF start_raises(microphone_started) THEN
          /\ reload_pc' = "dead"
          /\ UNCHANGED <<microphone_alive, microphone_started,
                         microphone_config, cycle>>
       ELSE
          /\ reload_pc' = "start_client"
          /\ Microphone_start
          /\ cycle' = Append(cycle, "microphone.start")
    /\ control_sent' = <<>>
    /\ UNCHANGED <<speaker_config, speaker_alive, speaker_started,
                   microphone_orphan, audio_interface,
                   need_reload, is_speaker_on, is_microphone_on>>
    /\ reload_frame

\* self.control.start_client()
reload_start_client ==
    /\ reload_pc = "start_client"
    /\ send_client_with_retries(START)
    /\ reload_pc' = "clear"
    /\ cycle' = Append(cycle, "start_client")
    /\ UNCHANGED <<speaker_config, microphone_config, microphone_alive,
                   speaker_alive, speaker_started, microphone_started,
                   microphone_orphan, audio_interface, need_reload,
                   is_speaker_on, is_microphone_on>>
    /\ reload_frame

\* self.need_reload.clear()
reload_clear ==
    /\ reload_pc = "clear"
    /\ need_reload' = FALSE
    /\ reload_pc' = "wait"
    /\ control_sent' = <<>>
    /\ UNCHANGED <<speaker_config, microphone_config, microphone_alive,
                   speaker_alive, speaker_started, microphone_started,
                   microphone_orphan, audio_interface,
                   is_speaker_on, is_microphone_on, cycle>>
    /\ reload_frame

reload_pyaudio ==
    \/ reload_wait
    \/ reload_stop_client
    \/ reload_is_speaker_on
    \/ reload_is_microphone_on
    \/ reload_speaker_stop
    \/ reload_microphone_stop
    \/ reload_terminate
    \/ reload_PyAudio
    \/ reload_Speaker
    \/ reload_Microphone
    \/ reload_speaker_start
    \/ reload_microphone_start
    \/ reload_start_client
    \/ reload_clear

\* The variables of the server process, which the monitor process and the
\* system's devices do not touch.
process_frame ==
    /\ control_sent' = <<>>
    /\ UNCHANGED <<client_address, speaker_config, microphone_config,
                   microphone_alive, reload_pc, server_socket>>
    /\ UNCHANGED <<workerVars, audio_interface, reloadVars, init_pc,
                   handler_recv>>
    /\ UNCHANGED <<clientVars, dataVars, codecVars, audioVars>>

\* One tick of device_monitor: a PyAudio of its own reads the default
\* devices; the process ends with an IOError when there is none.
device_monitor ==
    /\ monitor_alive
    /\ IF Speaker_raises(default_devices) \/ Microphone_raises(default_devices)
       THEN /\ monitor_alive' = FALSE
            /\ UNCHANGED <<current_devices, need_reload>>
       ELSE IF default_devices.output # current_devices.output
               \/ default_devices.input # current_devices.input
       THEN /\ current_devices' = default_devices
            /\ need_reload' = TRUE
            /\ UNCHANGED monitor_alive
       ELSE UNCHANGED <<current_devices, need_reload, monitor_alive>>
    /\ UNCHANGED default_devices
    /\ process_frame

\* The user plugs, unplugs or selects a device.
DeviceChange ==
    /\ \E d \in DefaultDevices :
          /\ d # default_devices
          /\ default_devices' = d
    /\ UNCHANGED <<current_devices, monitor_alive, need_reload>>
    /\ process_frame

\* Microphone.run on a terminated audio interface: the stream fails and
\* the thread ends.
Microphone_run_fails ==
    /\ microphone_alive
    /\ audio_interface = TERMINATED
    /\ microphone_alive' = FALSE
    /\ control_sent' = <<>>
    /\ UNCHANGED <<client_address, speaker_config, microphone_config,
                   reload_pc, server_socket>>
    /\ UNCHANGED <<workerVars, deviceVars, reloadVars, init_pc,
                   handler_recv>>
    /\ UNCHANGED <<clientVars, dataVars, codecVars, audioVars>>

\* The client's user asks for the microphone to be toggled.
Toggle == server_arrival(TOGGLE_MICROPHONE, CLIENT_ADDRESS)

\* The server is built, and main has started the workers or is about to.
ReloadInit ==
    /\ DataChannelIdle
    /\ CodecIdle
    /\ AudioIdle
    /\ ClientIdle
    /\ Constructed
    /\ speaker_alive \in BOOLEAN
    /\ speaker_started = speaker_alive
    /\ microphone_alive \in BOOLEAN
    /\ microphone_started = microphone_alive

ReloadNext ==
    \/ reload_wait
    \/ reload_stop_client
    \/ reload_is_speaker_on
    \/ reload_is_microphone_on
    \/ reload_speaker_stop
    \/ reload_microphone_stop
    \/ reload_terminate
    \/ reload_PyAudio
    \/ reload_Speaker
    \/ reload_Microphone
    \/ reload_speaker_start
    \/ reload_microphone_start
    \/ reload_start_client
    \/ reload_clear
    \/ request_handler
    \/ device_monitor
    \/ DeviceChange
    \/ Microphone_run_fails
    \/ Toggle

ReloadSpec == ReloadInit /\ [][ReloadNext]_vars

\* SoundBridgeServer.__init__, statement by statement ------------------------
\* init_pc names the statement the constructor executes next; "dead" is the
\* constructor after an exception, "done" the constructor that has returned.
\* The reload handler thread does not exist (reload_pc = "unstarted") until
\* the constructor starts it.

\* The variables no statement of the constructor assigns.
init_frame ==
    /\ control_sent' = <<>>
    /\ UNCHANGED <<client_address, server_socket, microphone_alive,
                   speaker_alive, speaker_started, microphone_started,
                   microphone_orphan, audio_interface, default_devices,
                   current_devices, reloadVars, handler_recv>>
    /\ UNCHANGED <<clientVars, dataVars, codecVars, audioVars>>

\* self.device_monitor.start()
init_monitor_start ==
    /\ init_pc = "monitor_start"
    /\ monitor_alive' = TRUE
    /\ init_pc' = "wait"
    /\ UNCHANGED <<need_reload, reload_pc, speaker_config, microphone_config,
                   handler_alive>>
    /\ init_frame

\* self.need_reload.wait()
init_wait ==
    /\ init_pc = "wait"
    /\ need_reload
    /\ init_pc' = "clear"
    /\ UNCHANGED <<monitor_alive, need_reload, reload_pc, speaker_config,
                   microphone_config, handler_alive>>
    /\ init_frame

\* The event is left set.
init_clear_Skipped ==
    /\ init_pc = "clear"
    /\ init_pc' = "Thread"
    /\ UNCHANGED <<monitor_alive, need_reload, reload_pc, speaker_config,
                   microphone_config, handler_alive>>
    /\ init_frame

\* self.need_reload.clear()
init_clear ==
    /\ init_pc = "clear"
    /\ need_reload' = FALSE
    /\ init_pc' = "Thread"
    /\ UNCHANGED <<monitor_alive, reload_pc, speaker_config,
                   microphone_config, handler_alive>>
    /\ init_frame

\* Thread(target=self.reload_pyaudio, daemon=True).start()
init_Thread ==
    /\ init_pc = "Thread"
    /\ reload_pc' = "wait"
    /\ init_pc' = "Speaker"
    /\ UNCHANGED <<monitor_alive, need_reload, speaker_config,
                   microphone_config, handler_alive>>
    /\ init_frame

\* self.speaker = Speaker(self)
init_Speaker ==
    /\ init_pc = "Speaker"
    /\ IF Speaker_raises(audio_interface)
       THEN /\ init_pc' = "dead"
            /\ UNCHANGED speaker_config
       ELSE /\ init_pc' = "Microphone"
            /\ speaker_config' = Speaker_config(audio_interface.output)
    /\ UNCHANGED <<monitor_alive, need_reload, reload_pc, microphone_config,
                   handler_alive>>
    /\ init_frame

\* self.microphone = Microphone(self)
init_Microphone ==
    /\ init_pc = "Microphone"
    /\ IF Microphone_raises(audio_interface)
       THEN /\ init_pc' = "dead"
            /\ UNCHANGED microphone_config
       ELSE /\ init_pc' = "control"
            /\ microphone_config' = Microphone_config(audio_interface.input)
    /\ UNCHANGED <<monitor_alive, need_reload, reload_pc, speaker_config,
                   handler_alive>>
    /\ init_frame

\* self.control = ControlChannelServer(self, control_port, server_host):
\* its constructor starts the thread of _request_handler.
init_control ==
    /\ init_pc = "control"
    /\ handler_alive' = TRUE
    /\ init_pc' = "done"
    /\ UNCHANGED <<monitor_alive, need_reload, reload_pc, speaker_config,
                   microphone_config>>
    /\ init_frame

\* The devices the server is built with in a session.
FirstDevices ==
    devices(CHOOSE d \in OutputDevices : d.name = "Speakers",
            CHOOSE d \in InputDevices : d.name = "Microphone")

\* device_monitor before its first tick:
\* current_output_device, current_input_device = None, None
NoDevices == devices(None, None)

\* The constructor has made the socket and the audio interface, and is
\* about to start the monitor process.
StartupInit ==
    /\ DataChannelIdle
    /\ CodecIdle
    /\ AudioIdle
    /\ ClientIdle
    /\ control_sent = <<>>
    /\ client_address = NO_ADDRESS
    /\ server_socket = <<>>
    /\ default_devices = FirstDevices
    /\ audio_interface = PyAudio
    /\ current_devices = NoDevices
    /\ monitor_alive = FALSE
    /\ need_reload = FALSE
    /\ init_pc = "monitor_start"
    /\ handler_recv = None
    /\ reload_pc = "unstarted"
    /\ speaker_config = None
    /\ microphone_config = None
    /\ speaker_alive = FALSE
    /\ speaker_started = FALSE
    /\ microphone_alive = FALSE
    /\ microphone_started = FALSE
    /\ microphone_orphan = FALSE
    /\ handler_alive = FALSE
    /\ is_speaker_on = FALSE
    /\ is_microphone_on = FALSE
    /\ cycle = <<>>

StartupNext ==
    \/ init_monitor_start
    \/ init_wait
    \/ init_clear
    \/ init_Thread
    \/ init_Speaker
    \/ init_Microphone
    \/ init_control
    \/ device_monitor
    \/ DeviceChange /\ default_devices' # FirstDevices
    \/ reload_wait
    \/ reload_stop_client
    \/ reload_is_speaker_on
    \/ reload_is_microphone_on
    \/ reload_speaker_stop
    \/ reload_microphone_stop
    \/ reload_terminate
    \/ reload_PyAudio
    \/ reload_Speaker
    \/ reload_Microphone
    \/ reload_speaker_start
    \/ reload_microphone_start
    \/ reload_start_client
    \/ reload_clear

StartupSpec == StartupInit /\ [][StartupNext]_vars

\* ControlChannelClient ----------------------------------------------------

\* The command of the _get_audio_config call the control thread is in.
thread_command ==
    IF thread_pc = "get_speaker_config" THEN SPEAKER_CONFIG
    ELSE MICROPHONE_CONFIG

\* _receive_data: <<the data returned, the socket buffer after>>; b'' when
\* recvfrom times out.
receive_data(timeout) ==
    IF timeout \/ client_socket = <<>> THEN <<(<<>>), client_socket>>
    ELSE <<Head(client_socket), Tail(client_socket)>>

\* Any reply that parses is taken, whatever its first byte.
accepts_AnyPrefix(command, prefix, config) == config # None

\* if prefix_byte == command[:1] and config is not None
accepts(command, prefix, config) ==
    prefix = prefix_byte(command) /\ config # None

\* SoundBridgeClient(SERVER_HOST, SERVER_PORT, speaker_config,
\* microphone_config): its workers are made with these configs and started.
SoundBridgeClient(speaker, microphone) ==
    [speaker_config |-> speaker, microphone_config |-> microphone]

\* _get_audio_config: sendto(command, server_address)
get_audio_config_send ==
    /\ thread_pc \in {"get_speaker_config", "get_microphone_config"}
    /\ get_phase = "send"
    /\ control_sent' = <<sendto(thread_command, SERVER_ADDRESS)>>
    /\ get_phase' = "receive"
    /\ UNCHANGED <<client_socket, thread_pc, recv_data,
                   thread_speaker_config, thread_microphone_config,
                   sound_bridge_client>>
    /\ UNCHANGED <<serverVars, dataVars, codecVars, audioVars>>

\* _get_audio_config: _receive_data, from_bytes, and the return or the next
\* turn of the loop
get_audio_config_receive ==
    /\ thread_pc \in {"get_speaker_config", "get_microphone_config"}
    /\ get_phase = "receive"
    /\ \E timeout \in BOOLEAN :
          LET received == receive_data(timeout)
              config == from_bytes(config_bytes(received[1]))
          IN  /\ recv_data' = received[1]
              /\ client_socket' = received[2]
              /\ IF accepts(thread_command, prefix_byte(received[1]), config)
                 THEN IF thread_pc = "get_speaker_config"
                      THEN /\ thread_speaker_config' = config
                           /\ thread_pc' = "get_microphone_config"
                           /\ UNCHANGED <<thread_microphone_config,
                                          sound_bridge_client>>
                      ELSE /\ thread_microphone_config' = config
                           /\ thread_pc' = "wait_for_stop"
                           /\ sound_bridge_client' =
                                 SoundBridgeClient(thread_speaker_config,
                                                   thread_microphone_config')
                           /\ UNCHANGED thread_speaker_config
                 ELSE UNCHANGED <<thread_pc, thread_speaker_config,
                                  thread_microphone_config,
                                  sound_bridge_client>>
    /\ get_phase' = "send"
    /\ control_sent' = <<>>
    /\ UNCHANGED <<serverVars, dataVars, codecVars, audioVars>>

\* One turn of the loop of _wait_for_command(expected_command); after_it is
\* where the control thread goes on when the call returns.
wait_for_command(expected_command, after_it) ==
    /\ \E timeout \in BOOLEAN :
          LET received == receive_data(timeout) IN
          /\ recv_data' = received[1]
          /\ client_socket' = received[2]
          /\ thread_pc' = IF received[1] = expected_command THEN after_it
                          ELSE thread_pc
    /\ control_sent' = <<>>
    /\ UNCHANGED <<get_phase, thread_speaker_config, thread_microphone_config>>
    /\ UNCHANGED <<serverVars, dataVars, codecVars, audioVars>>

\* After STOP the configs are fetched at once, with no wait for START.
wait_for_stop_NoStart ==
    /\ thread_pc = "wait_for_stop"
    /\ wait_for_command(STOP, "get_speaker_config")
    /\ sound_bridge_client' =
          IF thread_pc' = thread_pc THEN sound_bridge_client ELSE None

\* main.thread: the SoundBridgeClient runs until STOP; leaving the with
\* block stops its workers, terminates its audio interface and closes its
\* socket.
wait_for_stop ==
    /\ thread_pc = "wait_for_stop"
    /\ wait_for_command(STOP, "wait_for_start")
    /\ sound_bridge_client' =
          IF thread_pc' = thread_pc THEN sound_bridge_client ELSE None

\* main.thread: idle until START, then fetch the configs again
wait_for_start ==
    /\ thread_pc = "wait_for_start"
    /\ wait_for_command(START, "get_speaker_config")
    /\ UNCHANGED sound_bridge_client

\* What the server sends to the client: the reply to a config request, the
\* reply to a toggle, and the pushes of a reload.
ServerPayloads ==
    { config_reply(command, c) :
        command \in {SPEAKER_CONFIG, MICROPHONE_CONFIG}, c \in WorkerConfigs }
    \cup {STOP, START, MIC_ON, MIC_OFF}

\* What another host may send to the client's socket: a prefix with nothing
\* behind it, and a prefix with an object of other keys.
StrangerPayloads == {<<"S">>, <<"M", "{", "\"", "x", "\"", ":", "1", "}">>}

\* A datagram reaches the client's control socket.
client_arrival(payload) ==
    /\ client_socket' = enqueue(client_socket, payload)
    /\ control_sent' = <<>>
    /\ UNCHANGED <<thread_pc, get_phase, recv_data, thread_speaker_config,
                   thread_microphone_config, sound_bridge_client>>
    /\ UNCHANGED <<serverVars, dataVars, codecVars, audioVars>>

FromServer == \E payload \in ServerPayloads : client_arrival(payload)

FromStrangerToClient == \E payload \in StrangerPayloads : client_arrival(payload)

\* ControlChannelClient.__init__; main.thread is about to fetch the speaker
\* config.
ClientInit ==
    /\ DataChannelIdle
    /\ CodecIdle
    /\ AudioIdle
    /\ ServerIdle
    /\ client_socket = <<>>
    /\ control_sent = <<>>
    /\ thread_pc = "get_speaker_config"
    /\ get_phase = "send"
    /\ recv_data = <<>>
    /\ thread_speaker_config = None
    /\ thread_microphone_config = None
    /\ sound_bridge_client = None

ClientNext ==
    \/ get_audio_config_send
    \/ get_audio_config_receive
    \/ wait_for_stop
    \/ wait_for_start
    \/ FromServer
    \/ FromStrangerToClient

ClientSpec == ClientInit /\ [][ClientNext]_vars

-----------------------------------------------------------------------------
(* Properties of the data channel *)

\* The largest n with n * chunk_duration(c) <= BUFFER_TIME, i.e.
\* floor(BUFFER_TIME / chunk_duration): n * frames_per_chunk / sample_rate
\* seconds against BUFFER_TIME_MS / 1000 seconds.
FitsBufferTime(n, c) ==
    n * c.frames_per_chunk * 1000 <= BUFFER_TIME_MS * c.sample_rate

IsFloorOfBufferTime(n, c) == FitsBufferTime(n, c) /\ ~FitsBufferTime(n + 1, c)

\* C1: in every reachable state the tx queue holds at most
\* floor(BUFFER_TIME / sender chunk_duration) chunks and the rx queue at most
\* floor(BUFFER_TIME / receiver chunk_duration) chunks.
C1_QueueBound ==
    /\ FitsBufferTime(Len(tx_buffer.items), sender_config)
    /\ FitsBufferTime(Len(rx_buffer.items), receiver_config)

\* Both queues are full, one of them at a bound that is a proper floor
\* (500 Hz: 3.125 chunks of 32 frames fit in BUFFER_TIME).
C1_Witness ==
    /\ IsFloorOfBufferTime(Len(tx_buffer.items), sender_config)
    /\ IsFloorOfBufferTime(Len(rx_buffer.items), receiver_config)
    /\ sender_config.sample_rate = 500
    /\ receiver_config.sample_rate = 1600

\* The queue `after` is what appending `chunks`, one by one, to `before`
\* leaves when its capacity is cap: an append to a queue that holds cap
\* chunks removes the head and nothing else, an append below cap removes
\* nothing; the order is kept and the new chunk is at the tail.
RECURSIVE DropOldestAppends(_, _, _)
DropOldestAppends(items, chunks, cap) ==
    IF chunks = <<>> THEN items
    ELSE DropOldestAppends(
             IF Len(items) = cap THEN Tail(items) \o <<Head(chunks)>>
                                 ELSE items \o <<Head(chunks)>>,
             Tail(chunks), cap)

\* The pieces the receiver loop reads from a payload: size bytes each, the
\* last one shorter when the length is no multiple of size.
Pieces(payload, size) ==
    [i \in 1..((Len(payload) + size - 1) \div size) |->
        SubSeq(payload, (i - 1) * size + 1,
               IF i * size < Len(payload) THEN i * size ELSE Len(payload))]

\* The capacity required of a queue: floor(BUFFER_TIME / chunk_duration).
FloorCapacity(c) == CHOOSE n \in 0..c.sample_rate : IsFloorOfBufferTime(n, c)

\* C2: appending a chunk to a tx or rx queue that is at capacity removes
\* exactly the head, keeps the order of the rest, places the new chunk at
\* the tail and leaves the length at the capacity; below capacity nothing
\* is removed.
C2_DropOldest ==
    [][ /\ CaptureWorker =>
             LET cap == FloorCapacity(sender_config) IN
             /\ tx_buffer'.items =
                    IF Len(tx_buffer.items) = cap
                    THEN Tail(tx_buffer.items) \o <<CapturedChunk>>
                    ELSE tx_buffer.items \o <<CapturedChunk>>
             /\ Len(tx_buffer.items) = cap => Len(tx_buffer'.items) = cap
        /\ \A d \in InboundDatagrams, a \in Sources :
             receiver(d, a) =>
                 rx_buffer'.items =
                     DropOldestAppends(rx_buffer.items,
                                       Pieces(d, chunk_size(receiver_config)),
                                       FloorCapacity(receiver_config))
      ]_vars

\* The tx queue is full, and the rx queue of capacity 3 has been appended the
\* four pieces of a datagram of 1024 bytes: the first piece was displaced.
C2_Witness ==
    /\ Len(tx_buffer.items) = FloorCapacity(sender_config)
    /\ receiver_config.channels = 5
    /\ Len(rx_buffer.items) = 3
    /\ Len(rx_buffer.items[3]) = 64

\* C3: every datagram the sender loop sends has length exactly
\* tx_chunks_per_pkt * tx_chunk_size, which is at most MAX_PACKET_SIZE, with
\* tx_chunks_per_pkt = MAX_PACKET_SIZE div tx_chunk_size.
C3_PacketSizing ==
    \A i \in 1..Len(sent) :
        /\ tx_chunk_size = chunk_size(sender_config)
        /\ tx_chunks_per_pkt = MAX_PACKET_SIZE \div tx_chunk_size
        /\ Len(sent[i].payload) = tx_chunks_per_pkt * tx_chunk_size
        /\ Len(sent[i].payload) <= MAX_PACKET_SIZE

\* A datagram shorter than MAX_PACKET_SIZE was sent (3 chunks of 320 bytes).
C3_Witness ==
    /\ sent # <<>>
    /\ Len(sent[1].payload) = 960

\* C4: the sender loop sends nothing and removes nothing while the tx queue
\* holds fewer than tx_chunks_per_pkt chunks; otherwise one step removes
\* exactly the tx_chunks_per_pkt oldest chunks and sends their concatenation
\* in queue order as one datagram, the later chunks staying queued in order.
C4_Aggregation ==
    [][ sender =>
          LET size == chunk_size(sender_config)
              k == MAX_PACKET_SIZE \div size
              q == tx_buffer.items
          IN  IF Len(q) < k
              THEN sent' = <<>> /\ tx_buffer' = tx_buffer
              ELSE /\ Len(sent') = 1
                   /\ Len(sent'[1].payload) = k * size
                   /\ \A i \in 1..k : \A j \in 1..size :
                          sent'[1].payload[(i - 1) * size + j] = q[i][j]
                   /\ tx_buffer'.items = SubSeq(q, k + 1, Len(q))
      ]_vars

\* Ten chunks of 128 bytes were queued and tx_chunks_per_pkt = 8: one
\* datagram of 1024 bytes has been sent and 2 chunks are left, and the
\* datagram's chunks differ from one another.
C4_Witness ==
    /\ sent # <<>>
    /\ tx_chunk_size = 128
    /\ Len(sent[1].payload) = 1024
    /\ sent[1].payload[1] # sent[1].payload[129]
    /\ Len(tx_buffer.items) = 2

\* C4, the waiting branch: fewer chunks than a packet are queued, the loop
\* is running and has just sent nothing.
C4_WitnessWait ==
    /\ run_flag
    /\ tx_buffer.items # <<>>
    /\ Len(tx_buffer.items) < tx_chunks_per_pkt

\* The k full chunks of a payload of length k * size + r, 0 <= r < size.
FullChunks(payload, size) ==
    [i \in 1..(Len(payload) \div size) |->
        SubSeq(payload, (i - 1) * size + 1, i * size)]

\* C5: for every inbound datagram of length k * rx_chunk_size + r with
\* 0 <= r < rx_chunk_size the receiver loop appends exactly k chunks of
\* rx_chunk_size bytes, in the order they occur in the datagram, and the
\* trailing r bytes are discarded, never appended as a short chunk.
C5_Framing ==
    [][ \A d \in InboundDatagrams, a \in Sources :
          receiver(d, a) =>
              rx_buffer'.items =
                  DropOldestAppends(rx_buffer.items,
                                    FullChunks(d, chunk_size(receiver_config)),
                                    FloorCapacity(receiver_config))
      ]_vars

\* C5, as a property of the states: the rx queue holds no short chunk.
C5_NoShortChunk ==
    \A i \in 1..Len(rx_buffer.items) :
        Len(rx_buffer.items[i]) = chunk_size(receiver_config)

\* C6: in the server role every datagram the sender loop sends goes to the
\* source of the datagram received last (the latest sender wins); in the
\* client role dst_address stays (server_host, server_port) whatever the
\* sources of the received datagrams.
C6_LatestSender ==
    /\ is_server /\ last_from # NO_ADDRESS => dst_address = last_from
    /\ ~is_server => dst_address = SERVER_ADDRESS
    /\ \A i \in 1..Len(sent) :
           sent[i].address =
               IF is_server THEN last_from ELSE SERVER_ADDRESS

\* The server has received from A and then from B and sends to B.
C6_Witness ==
    /\ is_server
    /\ last_from = "B"
    /\ sent # <<>>
    /\ sent[1].address = "B"

\* The client has received a datagram that did not come from the server and
\* sends to the server.
C6_WitnessClient ==
    /\ ~is_server
    /\ last_from = "A"
    /\ sent # <<>>
    /\ sent[1].address = SERVER_ADDRESS

-----------------------------------------------------------------------------
(* Properties of the AudioConfig codec *)

\* C7: for every valid AudioConfig c (four positive integer fields),
\* from_bytes(c.to_bytes()) returns an AudioConfig equal to c.
C7_RoundTrip ==
    (codec_pc = "decoded" /\ codec_kind = "to_bytes")
        => codec_result = codec_config

\* The serialization of a 44.1 kHz configuration has been parsed back.
C7_Witness ==
    /\ codec_pc = "decoded"
    /\ codec_kind = "to_bytes"
    /\ codec_config.sample_rate = 44100
    /\ codec_data = to_bytes(codec_config)
    /\ codec_result = codec_config

\* C8: from_bytes returns None for every payload that is not a JSON object
\* with exactly the four keys, each bound to an integer: non-JSON bytes,
\* non-object JSON, a missing key, an extra key, or a non-integer value.
C8_MalformedIsNone ==
    (codec_pc = "decoded" /\ codec_kind \in MalformedKinds)
        => codec_result = None

\* The malformed payloads other than those with a JSON true for a value
\* are parsed to None.
C8_NoneButBool ==
    (codec_pc = "decoded" /\ codec_kind \in MalformedKinds \ {"bool_value"})
        => codec_result = None

-----------------------------------------------------------------------------
(* Properties of the control channel *)

\* The request a call of get_speaker_config / get_microphone_config issues.
Request == IF thread_pc = "get_speaker_config" THEN SPEAKER_CONFIG
           ELSE MICROPHONE_CONFIG

\* The AudioConfig the bytes after the first one parse as, or None.
ParsedRemainder(d) == from_bytes(IF Len(d) <= 1 THEN <<>> ELSE Tail(d))

\* A config reply of the other kind than the request.
OtherKindReplies ==
    { config_reply(command, c) :
        command \in {SPEAKER_CONFIG, MICROPHONE_CONFIG} \ {Request},
        c \in WorkerConfigs }

\* C9: get_speaker_config / get_microphone_config return a config from a
\* received datagram if and only if the datagram's first byte equals the
\* first byte of the request being issued and the remaining bytes parse as
\* an AudioConfig; every other datagram (timeout/empty, reply of the other
\* kind, STOP, START, MIC ON/OFF) is discarded and the request is sent again.
C9_PrefixCorrelation ==
    [][ /\ get_audio_config_receive =>
            LET d == recv_data'
                matches == /\ d # <<>>
                           /\ d[1] = Request[1]
                           /\ ParsedRemainder(d) # None
                returned == thread_pc' # thread_pc
            IN  /\ returned <=> matches
                /\ returned =>
                      IF thread_pc = "get_speaker_config"
                      THEN thread_speaker_config' = ParsedRemainder(d)
                      ELSE thread_microphone_config' = ParsedRemainder(d)
                /\ ~returned =>
                      /\ get_phase' = "send"
                      /\ UNCHANGED <<thread_speaker_config,
                                     thread_microphone_config>>
                /\ d \in {<<>>, STOP, START, MIC_ON, MIC_OFF} \cup OtherKindReplies
                      => ~returned
        /\ get_audio_config_send =>
              control_sent' = <<sendto(Request, SERVER_ADDRESS)>>
      ]_vars

\* The speaker config has been returned from an 'S' reply; the microphone
\* request that followed it met a STOP, which was discarded, and is about
\* to be sent again.
C9_Witness ==
    /\ thread_pc = "get_microphone_config"
    /\ get_phase = "send"
    /\ thread_speaker_config \in WorkerConfigs
    /\ recv_data = STOP

\* A reply of the other kind has been discarded.
C9_WitnessOtherKind ==
    /\ thread_pc = "get_speaker_config"
    /\ get_phase = "send"
    /\ recv_data = config_reply(MICROPHONE_CONFIG, AudioConfig(96000, 2, 8, 32))

C10_WitnessStranger ==
    /\ control_sent = <<sendto(<<"S">> \o to_bytes(speaker_config),
                               STRANGER_ADDRESS)>>
    /\ client_address = STRANGER_ADDRESS

-----------------------------------------------------------------------------
(* The client's control thread and the server, joined by a network that     *)
(* loses nothing: what a step sends is delivered before the next step.       *)

\* The datagrams of sent that go to address, in order.
addressed(sent_now, address) ==
    SelectSeq(sent_now, LAMBDA d : d.address = address)

\* What the datagrams of sent_now add to the server's socket buffer.
to_server(sent_now) ==
    [i \in 1..Len(addressed(sent_now, SERVER_ADDRESS)) |->
        datagram(addressed(sent_now, SERVER_ADDRESS)[i].payload,
                 CLIENT_ADDRESS)]

\* What the datagrams of sent_now add to the client's socket buffer.
to_client(sent_now) ==
    [i \in 1..Len(addressed(sent_now, CLIENT_ADDRESS)) |->
        addressed(sent_now, CLIENT_ADDRESS)[i].payload]

\* The network delivers what the last step sent.
Deliver ==
    /\ control_sent # <<>>
    /\ server_socket' = server_socket \o to_server(control_sent)
    /\ client_socket' = client_socket \o to_client(control_sent)
    /\ control_sent' = <<>>
    /\ UNCHANGED <<client_address, speaker_config, microphone_config,
                   microphone_alive, reload_pc>>
    /\ UNCHANGED <<workerVars, deviceVars, reloadVars, init_pc,
                   handler_recv>>
    /\ UNCHANGED <<thread_pc, get_phase, recv_data, thread_speaker_config,
                   thread_microphone_config, sound_bridge_client>>
    /\ UNCHANGED <<dataVars, codecVars, audioVars>>

\* _receive_data times out only when no datagram is on its way to the
\* client and no request waits at the server.
TimelyReceive ==
    recv_data' = <<>> => client_socket = <<>> /\ server_socket = <<>>

\* Both endpoints are built; the server's main has started its workers.
SessionInit ==
    /\ DataChannelIdle
    /\ CodecIdle
    /\ AudioIdle
    /\ Constructed
    /\ audio_interface = FirstDevices
    /\ speaker_alive = TRUE
    /\ speaker_started = TRUE
    /\ microphone_alive = TRUE
    /\ microphone_started = TRUE
    /\ client_socket = <<>>
    /\ thread_pc = "get_speaker_config"
    /\ get_phase = "send"
    /\ recv_data = <<>>
    /\ thread_speaker_config = None
    /\ thread_microphone_config = None
    /\ sound_bridge_client = None

\* A step of the one reload cycle of a session, which the change of the
\* default devices to other devices sets off.
SessionReload ==
    \/ stop_client /\ audio_interface = FirstDevices
    \/ reload_devices /\ audio_interface' # FirstDevices
    \/ start_client

SessionNext ==
    \/ Deliver
    \/ control_sent = <<>> /\ get_audio_config_send
    \/ control_sent = <<>> /\ get_audio_config_receive /\ TimelyReceive
    \/ control_sent = <<>> /\ wait_for_stop
    \/ control_sent = <<>> /\ wait_for_start
    \/ control_sent = <<>> /\ request_handler
    \/ control_sent = <<>> /\ stop_client /\ audio_interface = FirstDevices
    \/ control_sent = <<>> /\ reload_devices /\ audio_interface' # FirstDevices
    \/ control_sent = <<>> /\ start_client

SessionSpec == SessionInit /\ [][SessionNext]_vars

\* _get_audio_config can take its receiving step.
ReceiveReady ==
    /\ control_sent = <<>>
    /\ thread_pc \in {"get_speaker_config", "get_microphone_config"}
    /\ get_phase = "receive"
    /\ client_socket # <<>> \/ server_socket = <<>>

\* Weak fairness of the receiving step of _get_audio_config, with its
\* enabling condition written out.
ReceiveFairness ==
    <>[]ReceiveReady => []<><<get_audio_config_receive /\ TimelyReceive>>_vars

\* Every thread keeps running, and the network keeps delivering.
SessionFairness ==
    /\ WF_vars(Deliver)
    /\ WF_vars(control_sent = <<>> /\ get_audio_config_send)
    /\ ReceiveFairness
    /\ WF_vars(control_sent = <<>> /\ wait_for_stop)
    /\ WF_vars(control_sent = <<>> /\ wait_for_start)
    /\ WF_vars(control_sent = <<>> /\ request_handler)
    /\ WF_vars(control_sent = <<>> /\ SessionReload)

SessionFairSpec == SessionSpec /\ SessionFairness

-----------------------------------------------------------------------------
(* audio_handlers.py : the Sender and the Receiver thread of an endpoint     *)

\* __init__: a thread that was not started, with its run flag set.
Worker ==
    [started |-> FALSE, alive |-> FALSE, run_flag |-> TRUE, stream |-> "none"]

\* Thread.start
Thread_start(w) == [w EXCEPT !.started = TRUE, !.alive = TRUE]

\* run: self.app.audio_interface.open(...)
run_open(w) == [w EXCEPT !.stream = "open"]

\* run: the loop is left, the stream is closed and the thread ends.
run_clean_up(w) == [w EXCEPT !.stream = "closed", !.alive = FALSE]

\* stop: self.run_flag = False
lower_run_flag(w) == [w EXCEPT !.run_flag = FALSE]

\* The endpoint has made its workers.
AudioInit ==
    /\ sender_worker = Worker
    /\ receiver_worker = Worker
    /\ app_pc = "idle"
    /\ last_call = "none"
    /\ DataChannelIdle
    /\ CodecIdle
    /\ ControlIdle

\* The endpoint calls start() of its Sender, which raises a RuntimeError on a
\* thread that was started before.
Sender_start ==
    /\ app_pc = "idle"
    /\ IF start_raises(sender_worker.started)
       THEN /\ last_call' = "Sender.start raised"
            /\ UNCHANGED sender_worker
       ELSE /\ last_call' = "Sender.start"
            /\ sender_worker' = Thread_start(sender_worker)
    /\ UNCHANGED <<receiver_worker, app_pc>>
    /\ UNCHANGED <<dataVars, codecVars, controlVars>>

\* Sender.run up to its loop
Sender_run ==
    /\ sender_worker.alive
    /\ sender_worker.stream = "none"
    /\ sender_worker' = run_open(sender_worker)
    /\ UNCHANGED <<receiver_worker, app_pc, last_call>>
    /\ UNCHANGED <<dataVars, codecVars, controlVars>>

\* Sender.run: `while self.run_flag` fails
Sender_run_ends ==
    /\ sender_worker.alive
    /\ sender_worker.stream = "open"
    /\ ~sender_worker.run_flag
    /\ sender_worker' = run_clean_up(sender_worker)
    /\ UNCHANGED <<receiver_worker, app_pc, last_call>>
    /\ UNCHANGED <<dataVars, codecVars, controlVars>>

\* Sender.stop up to join: nothing is done to a thread that is not alive.
Sender_stop ==
    /\ app_pc = "idle"
    /\ IF sender_worker.alive
       THEN /\ sender_worker' = lower_run_flag(sender_worker)
            /\ app_pc' = "Sender.join"
            /\ UNCHANGED last_call
       ELSE /\ last_call' = "Sender.stop"
            /\ UNCHANGED <<sender_worker, app_pc>>
    /\ UNCHANGED receiver_worker
    /\ UNCHANGED <<dataVars, codecVars, controlVars>>

\* Sender.stop: self.join() returns
Sender_join ==
    /\ app_pc = "Sender.join"
    /\ ~sender_worker.alive
    /\ app_pc' = "idle"
    /\ last_call' = "Sender.stop"
    /\ UNCHANGED <<sender_worker, receiver_worker>>
    /\ UNCHANGED <<dataVars, codecVars, controlVars>>

Receiver_start ==
    /\ app_pc = "idle"
    /\ IF start_raises(receiver_worker.started)
       THEN /\ last_call' = "Receiver.start raised"
            /\ UNCHANGED receiver_worker
       ELSE /\ last_call' = "Receiver.start"
            /\ receiver_worker' = Thread_start(receiver_worker)
    /\ UNCHANGED <<sender_worker, app_pc>>
    /\ UNCHANGED <<dataVars, codecVars, controlVars>>

Receiver_run ==
    /\ receiver_worker.alive
    /\ receiver_worker.stream = "none"
    /\ receiver_worker' = run_open(receiver_worker)
    /\ UNCHANGED <<sender_worker, app_pc, last_call>>
    /\ UNCHANGED <<dataVars, codecVars, controlVars>>

Receiver_run_ends ==
    /\ receiver_worker.alive
    /\ receiver_worker.stream = "open"
    /\ ~receiver_worker.run_flag
    /\ receiver_worker' = run_clean_up(receiver_worker)
    /\ UNCHANGED <<sender_worker, app_pc, last_call>>
    /\ UNCHANGED <<dataVars, codecVars, controlVars>>

Receiver_stop ==
    /\ app_pc = "idle"
    /\ IF receiver_worker.alive
       THEN /\ receiver_worker' = lower_run_flag(receiver_worker)
            /\ app_pc' = "Receiver.join"
            /\ UNCHANGED last_call
       ELSE /\ last_call' = "Receiver.stop"
            /\ UNCHANGED <<receiver_worker, app_pc>>
    /\ UNCHANGED sender_worker
    /\ UNCHANGED <<dataVars, codecVars, controlVars>>

Receiver_join ==
    /\ app_pc = "Receiver.join"
    /\ ~receiver_worker.alive
    /\ app_pc' = "idle"
    /\ last_call' = "Receiver.stop"
    /\ UNCHANGED <<sender_worker, receiver_worker>>
    /\ UNCHANGED <<dataVars, codecVars, controlVars>>

AudioNext ==
    \/ Sender_start
    \/ Sender_run
    \/ Sender_run_ends
    \/ Sender_stop
    \/ Sender_join
    \/ Receiver_start
    \/ Receiver_run
    \/ Receiver_run_ends
    \/ Receiver_stop
    \/ Receiver_join

AudioSpec == AudioInit /\ [][AudioNext]_vars

-----------------------------------------------------------------------------
(* The workers of audio_handlers.py *)

\* The step is the return of the Sender's stop().
Sender_stop_returns ==
    \/ app_pc = "idle" /\ ~sender_worker.alive /\ last_call' = "Sender.stop"
                       /\ app_pc' = "idle"
    \/ app_pc = "Sender.join" /\ app_pc' = "idle"

\* The step is the return of the Receiver's stop().
Receiver_stop_returns ==
    \/ app_pc = "idle" /\ ~receiver_worker.alive
                       /\ last_call' = "Receiver.stop" /\ app_pc' = "idle"
    \/ app_pc = "Receiver.join" /\ app_pc' = "idle"

\* C13: stop() of a worker that is not alive changes no thread and no
\* stream, and when stop() returns, whether the worker was alive or not, the
\* endpoint's slot holds a worker that was never started.
C13_StopLeavesFresh ==
    [][ /\ Sender_stop_returns =>
              /\ app_pc = "idle" => UNCHANGED <<sender_worker, receiver_worker>>
              /\ ~sender_worker'.started
        /\ Receiver_stop_returns =>
              /\ app_pc = "idle" => UNCHANGED <<sender_worker, receiver_worker>>
              /\ ~receiver_worker'.started ]_vars

-----------------------------------------------------------------------------
(* The server's workers and the reload of the audio devices *)

\* The step is one iteration of _request_handler on a datagram that carries
\* command.
Handles(command) ==
    /\ handler_alive
    /\ server_socket # <<>>
    /\ Head(server_socket).payload = command
    /\ server_socket' = Tail(server_socket)

\* C11: while the reload handler waits for the reload event, every
\* TOGGLE_MICROPHONE the request handler handles flips the microphone worker
\* between alive and not alive, does not end the handler, and is answered to
\* its sender with MIC ON if the microphone is alive after the flip and with
\* MIC OFF otherwise.
C11_ToggleFlips ==
    [][ (Handles(TOGGLE_MICROPHONE) /\ reload_pc = "wait") =>
            /\ microphone_alive' = ~microphone_alive
            /\ handler_alive'
            /\ control_sent' =
                  <<sendto(IF microphone_alive' THEN MIC_ON ELSE MIC_OFF,
                           Head(server_socket).address)>> ]_vars

\* A toggle has stopped the microphone and was answered with MIC OFF.
C11_Witness ==
    /\ reload_pc = "wait"
    /\ ~microphone_alive
    /\ ~microphone_started
    /\ control_sent = <<sendto(MIC_OFF, CLIENT_ADDRESS)>>

\* C12: when the request handler has handled one datagram, client_address
\* is the datagram's sender if the command is SPEAKER_CONFIG,
\* MICROPHONE_CONFIG, TOGGLE_MICROPHONE or HEARTBEAT, and is what it was
\* before the datagram was received otherwise; on an unrecognized command
\* nothing is sent and no worker changes.
C12_ClientAddress ==
    [][ (handler_alive /\ server_socket # <<>>
         /\ server_socket' = Tail(server_socket)) =>
            LET command == Head(server_socket).payload
                sender_address == Head(server_socket).address
            IN  IF command \in {SPEAKER_CONFIG, MICROPHONE_CONFIG,
                                TOGGLE_MICROPHONE, HEARTBEAT}
                THEN client_address' = sender_address
                ELSE /\ client_address' = client_address
                     /\ control_sent' = <<>>
                     /\ UNCHANGED <<speaker_config, speaker_alive,
                                    speaker_started, microphone_config,
                                    microphone_alive, microphone_started,
                                    microphone_orphan>> ]_vars

\* The client is known, and the next datagram is an unknown command of
\* another host.
C12_WitnessUnknown ==
    /\ client_address = CLIENT_ADDRESS
    /\ server_socket # <<>>
    /\ Head(server_socket).address = STRANGER_ADDRESS
    /\ Head(server_socket).payload \notin ClientCommands
    /\ handler_alive

\* A request of another host has made that host the client.
C12_Witness ==
    /\ client_address = STRANGER_ADDRESS
    /\ control_sent =
          <<sendto(config_reply(SPEAKER_CONFIG, speaker_config),
                   STRANGER_ADDRESS)>>

\* The steps of a reload cycle that the order of C14 is about.
OrderedSteps ==
    {"stop_client", "speaker.stop", "microphone.stop", "data_channel.restart",
     "speaker.start", "microphone.start", "start_client"}

IsOrderedStep(step) == step \in OrderedSteps

\* The order a cycle has to follow, given the workers it found alive.
ReloadOrder ==
    <<"stop_client", "speaker.stop", "microphone.stop",
      "data_channel.restart">>
    \o (IF is_speaker_on THEN <<"speaker.start">> ELSE <<>>)
    \o (IF is_microphone_on THEN <<"microphone.start">> ELSE <<>>)
    \o <<"start_client">>

\* C14: when a reload cycle pushes START, it has pushed STOP, stopped both
\* workers, restarted the data channel with the new microphone and speaker
\* configs and started the workers that were alive, in this order.
C14_ReloadOrder ==
    [][ (reload_pc = "start_client" /\ reload_pc' = "clear") =>
            /\ SelectSeq(cycle', IsOrderedStep) = ReloadOrder
            /\ sender_config = microphone_config
            /\ receiver_config = speaker_config ]_vars

\* The reload handler waits on a cleared event, a reload cycle has run, and
\* the monitor has seen the default devices of the moment.
ReloadIdle ==
    /\ reload_pc = "wait"
    /\ ~need_reload
    /\ cycle # <<>>
    /\ current_devices = default_devices

\* The workers' configs are those of the default devices.
ConfigsOfDefaultDevices ==
    /\ speaker_config = Speaker_config(default_devices.output)
    /\ microphone_config = Microphone_config(default_devices.input)

\* The data channel's chunk sizes, chunks per packet and queue capacities
\* are those of the microphone's config (sent) and the speaker's (received).
DataChannelOfConfigs ==
    LET v == setup(microphone_config, speaker_config)
    IN  /\ tx_chunk_size = v.tx_chunk_size
        /\ rx_chunk_size = v.rx_chunk_size
        /\ tx_chunks_per_pkt = v.tx_chunks_per_pkt
        /\ rx_chunks_per_pkt = v.rx_chunks_per_pkt
        /\ tx_buffer.maxlen = v.tx_buffer.maxlen
        /\ rx_buffer.maxlen = v.rx_buffer.maxlen

\* C15: whenever the reload handler is idle after device changes, the
\* workers' configs are those of the current default devices and the data
\* channel's derived quantities are those of these configs.
C15_ReloadInvariant ==
    ReloadIdle => ConfigsOfDefaultDevices /\ DataChannelOfConfigs

\* The part of C15 about the workers' configs alone.
C15_ConfigsOnly == ReloadIdle => ConfigsOfDefaultDevices

\* Making the workers on the re-initialized audio interface fails.
EnumerationFails ==
    \/ reload_pc = "Speaker" /\ Speaker_raises(audio_interface)
    \/ reload_pc = "Microphone" /\ Microphone_raises(audio_interface)

\* C16: when device enumeration fails during a reload, the reload handler
\* goes back to re-initializing the audio interface; its thread does not end.
C16_RetryOnFailure ==
    [][ (EnumerationFails /\ reload_pc' # reload_pc) =>
            reload_pc' = "PyAudio" ]_vars

\* A speaker or microphone worker of the server is alive.
WorkerAlive == speaker_alive \/ microphone_alive \/ microphone_orphan

\* C19: when the reload handler terminates the audio interface, and when it
\* makes the new one, no speaker or microphone worker is alive, however the
\* request handler's toggles interleave.
C19_InterfaceOwned ==
    [][ (reload_pc \in {"terminate", "PyAudio"} /\ reload_pc' # reload_pc) =>
            ~WorkerAlive ]_vars

\* C20: a reload cycle during which no toggle was handled ends with the
\* speaker alive iff it was alive when the cycle recorded is_speaker_on, and
\* with the microphone alive iff it was alive when the cycle recorded
\* is_microphone_on; a worker that was stopped is not started.
C20_RestartsWhatWasAlive ==
    [][ (reload_pc = "clear" /\ reload_pc' = "wait" /\ ~InCycle("toggle")) =>
            /\ speaker_alive' = is_speaker_on
            /\ microphone_alive' = is_microphone_on ]_vars

\* A cycle without toggles has found the speaker stopped and the microphone
\* alive, and is over.
C20_Witness ==
    /\ reload_pc = "wait"
    /\ InCycle("start_client")
    /\ ~InCycle("toggle")
    /\ ~is_speaker_on
    /\ ~speaker_alive
    /\ is_microphone_on
    /\ microphone_alive

-----------------------------------------------------------------------------
(* The client's control thread *)

\* The order in which main.thread goes from call to call.
ThreadCycle ==
    { <<"get_speaker_config", "get_microphone_config">>,
      <<"get_microphone_config", "wait_for_stop">>,
      <<"wait_for_stop", "wait_for_start">>,
      <<"wait_for_start", "get_speaker_config">> }

\* C17: the control thread goes round the cycle get_speaker_config,
\* get_microphone_config, SoundBridgeClient built, wait_for_stop, client
\* torn down, wait_for_start.  A SoundBridgeClient is live exactly while the
\* thread waits for STOP, and it is built with the two configs fetched last;
\* wait_for_stop is left on STOP only and wait_for_start on START only.
C17_ThreadCycle ==
    [][ /\ sound_bridge_client' # None <=> thread_pc' = "wait_for_stop"
        /\ sound_bridge_client' # None =>
              sound_bridge_client' =
                 SoundBridgeClient(thread_speaker_config',
                                   thread_microphone_config')
        /\ thread_pc' # thread_pc =>
              /\ <<thread_pc, thread_pc'>> \in ThreadCycle
              /\ thread_pc = "wait_for_stop" => recv_data' = STOP
              /\ thread_pc = "wait_for_start" => recv_data' = START
              /\ thread_pc' = "wait_for_stop" =>
                    /\ thread_pc = "get_microphone_config"
                    /\ thread_speaker_config' # None
                    /\ thread_microphone_config' # None ]_vars

\* START was observed after a client was torn down: no client is live, and
\* the configs of the client before are about to be fetched again.
C17_Witness ==
    /\ thread_pc = "get_speaker_config"
    /\ recv_data = START
    /\ sound_bridge_client = None
    /\ thread_speaker_config # None
    /\ thread_microphone_config # None

\* The client runs a SoundBridgeClient with the configs of the server's
\* workers.
Consistent ==
    sound_bridge_client = SoundBridgeClient(speaker_config, microphone_config)

\* C18: with a network that loses nothing, once a reload cycle has completed
\* the client eventually runs a SoundBridgeClient whose configs are the
\* server's configs after the reload.
C18_EventuallyConsistent ==
    (reload_pc = "wait" /\ audio_interface # FirstDevices) ~> Consistent

\* The tick's read of the default devices succeeds.
ReadSucceeds ==
    ~Speaker_raises(default_devices) /\ ~Microphone_raises(default_devices)

\* The pair read on the tick differs from the last observed pair.
ReadDiffers ==
    \/ default_devices.output # current_devices.output
    \/ default_devices.input # current_devices.input

\* The constructor is past its self.need_reload.clear().
PastClear == init_pc \notin {"monitor_start", "wait", "clear"}

\* C21: a tick of the device monitor whose read succeeds sets the reload
\* event and records the pair it read if that pair differs from the last
\* observed pair, and otherwise leaves the event and the last observed pair
\* alone; nothing else sets the event; the first successful read sets it;
\* and the constructor waits for and clears that first event before it starts
\* the reload handler, so that while the default devices are those of the
\* start no event is pending and no reload cycle runs.
C21_MonitorEvent ==
    [][ /\ (device_monitor /\ ReadSucceeds /\ ReadDiffers) =>
              (need_reload' /\ current_devices' = default_devices)
        /\ (device_monitor /\ ReadSucceeds /\ ~ReadDiffers) =>
              UNCHANGED <<need_reload, current_devices>>
        /\ (need_reload' /\ ~need_reload) =>
              (device_monitor /\ ReadSucceeds /\ ReadDiffers)
        /\ (device_monitor /\ ReadSucceeds /\ current_devices = NoDevices) =>
              need_reload'
        /\ (~PastClear)' => reload_pc' = "unstarted"
        /\ (PastClear /\ default_devices = FirstDevices)' =>
              (~need_reload /\ reload_pc \in {"unstarted", "wait"})'
      ]_vars

\* The constructor has returned with the default devices of the start, the
\* monitor has observed them, and the reload handler waits on a clear event.
C21_Witness ==
    /\ init_pc = "done"
    /\ default_devices = FirstDevices
    /\ current_devices = FirstDevices
    /\ monitor_alive
    /\ ~need_reload
    /\ reload_pc = "wait"

\* C28: when the reload handler is about to execute the first statement of a
\* reload cycle, self.control.stop_client(), the constructor has assigned
\* self.speaker, self.microphone and self.control.
C28_ConstructedBeforeCycle ==
    reload_pc = "stop_client" => has_control

\* C25: when the reload handler waits on a clear event and the monitor has
\* signalled the default devices of the moment, the audio interface was made
\* after the change to these devices: no signalled change is left without a
\* reload cycle that reads the devices after it.
C25_NoLostEvent ==
    (/\ reload_pc = "wait"
     /\ ~need_reload
     /\ monitor_alive
     /\ current_devices = default_devices)
    => audio_interface = default_devices

\* The datagrams of the last step that are pushes of the reload handler.
Pushes == { i \in 1..Len(control_sent) : control_sent[i].payload \in {STOP, START} }

\* The address of the last sender of a recognized command: the address a
\* datagram that _request_handler has received and not matched yet came
\* from does not count when its command is not a recognized one.
RecognizedAddress ==
    IF handler_recv # None /\ handler_recv.command \notin ClientCommands
    THEN handler_recv.previous_client_address
    ELSE client_address

\* C27: every STOP and START push goes to the address of the last sender of
\* a recognized command.
C27_PushToClient ==
    \A i \in Pushes : control_sent[i].address = RecognizedAddress

\* The step is a call of start() on the microphone worker in the slot, by
\* the request handler (TOGGLE_MICROPHONE with the worker not alive) or by
\* the reload handler (is_microphone_on and self.microphone.start()).
Microphone_start_called ==
    \/ Handles(TOGGLE_MICROPHONE) /\ ~microphone_alive
    \/ /\ reload_pc = "microphone_start"
       /\ reload_pc' # reload_pc
       /\ is_microphone_on

\* C26: start() is never called on a microphone worker that was started
\* before.
C26_StartedOnce ==
    [][Microphone_start_called => ~microphone_started]_vars

-----------------------------------------------------------------------------
(* The loop threads of the data channel *)

\* stop() has lowered the run flag and has not returned.
StopUnderWay == call_pc \in {"sender_thread.join", "receiver_thread.join"}

\* stop() has returned and the channel was not started again.
Stopped == call_pc = "idle" /\ ~run_flag

\* C22: a stop() that has lowered the run flag returns, whatever the queues
\* hold and whether datagrams come in or not; when it has returned both
\* loop threads are over, and from then on no step sends a datagram or
\* appends to the rx queue.
C22_StopTerminates ==
    /\ StopUnderWay ~> ~StopUnderWay
    /\ [][ Stopped =>
             /\ sender_pc \in {"done", "raised"}
             /\ receiver_pc = "done"
             /\ sent' = <<>>
             /\ \/ rx_buffer' = rx_buffer
                \/ rx_buffer'.items = Tail(rx_buffer.items)
                \/ call_pc' = "_start" ]_vars

\* stop() has returned on a channel whose tx queue is empty.
C22_Witness ==
    /\ Stopped
    /\ sender_pc = "done"
    /\ receiver_pc = "done"
    /\ tx_buffer.items = <<>>

C29_PopsSucceed ==
    /\ sender_pc # "raised"
    /\ sender_pc = "popleft" =>
          Len(tx_buffer.items) + Len(sender_popped) >= tx_chunks_per_pkt
    /\ call_pc \in {"_setup", "_start"} => sender_pc = "done"

\* The sender has popped one chunk of its packet, and put_chunk has since
\* filled the queue and dropped the chunk that came next.
C29_Witness ==
    /\ sender_pc = "popleft"
    /\ Len(sender_popped) = 1
    /\ Len(sender_popped) < tx_chunks_per_pkt
    /\ Len(tx_buffer.items) = tx_buffer.maxlen
    /\ Head(tx_buffer.items)[1] # (sender_popped[1][1] + 1) % NumTags

\* The chunks of rx_chunk_size bytes that the receiver loop reads from a
\* stream of bytes.
RECURSIVE chunks_of(_)
chunks_of(stream) ==
    IF stream = <<>> THEN <<>>
    ELSE LET chunk == read(stream, rx_chunk_size) IN
         <<chunk>> \o chunks_of(SubSeq(stream, Len(chunk) + 1, Len(stream)))

\* Every chunk between put_chunk and get_chunk, those nearest to get_chunk
\* first: the rx queue, the payload being read, the datagrams under way,
\* the chunks the sender loop has popped, the tx queue.
Pipeline ==
    rx_buffer.items \o chunks_of(receiver_stream) \o chunks_of(join(wire))
        \o sender_popped \o tx_buffer.items

\* A chunk as put_chunk got it: tx_chunk_size bytes of one value.
Whole(chunk) ==
    /\ Len(chunk) = tx_chunk_size
    /\ \A i \in 1..Len(chunk) : chunk[i] = chunk[1]

\* C24: in a session without restart over a network that keeps the sending
\* order, every chunk between put_chunk and get_chunk is a chunk that was
\* put, unaltered, and the chunks are in the order they were put with none
\* twice; get_chunk returns the first of them, so the chunks it returns are
\* a subsequence of the chunks put.
C24_OrderKept ==
    \A i \in 1..Len(Pipeline) :
        /\ Whole(Pipeline[i])
        /\ Pipeline[i][1] < tx_seq
        /\ i > 1 => Pipeline[i - 1][1] < Pipeline[i][1]

\* The rx queue holds two chunks that were not put one after the other: a
\* chunk between them was dropped on the way.
C24_Witness ==
    /\ Len(rx_buffer.items) >= 2
    /\ rx_buffer.items[2][1] > rx_buffer.items[1][1] + 1

====
